---- MODULE Spec2Model ----
(***************************************************************************)
(* Extension Performance Monitor: the subprocess attribution engine        *)
(* (subprocessUsage.ts), the history records, alerting and the scheduler   *)
(* (performanceMonitor.ts) as a state machine.                             *)
(*                                                                         *)
(* Conventions                                                             *)
(*  - a JavaScript string is a sequence of one-character strings;          *)
(*  - an optional value (T | undefined) is a sequence of length 0 or 1;    *)
(*  - a Map<K, V> is a function whose DOMAIN is the set of keys;           *)
(*  - a number produced by a floating point division is kept as the exact  *)
(*    fraction [num, den].                                                 *)
(***************************************************************************)
EXTENDS Integers, Sequences, FiniteSets, TLC

(***************************************************************************)
(* Optional values                                                         *)
(***************************************************************************)
None == << >>

Some(x) == << x >>

(***************************************************************************)
(* Strings                                                                 *)
(***************************************************************************)
UpperChars == <<"A", "B", "C", "D", "E", "F", "G", "H", "I", "J", "K", "L", "M",
                "N", "O", "P", "Q", "R", "S", "T", "U", "V", "W", "X", "Y", "Z">>

LowerChars == <<"a", "b", "c", "d", "e", "f", "g", "h", "i", "j", "k", "l", "m",
                "n", "o", "p", "q", "r", "s", "t", "u", "v", "w", "x", "y", "z">>

\* String.prototype.toLowerCase on one character
toLowerCase(c) ==
    IF \E i \in 1..Len(UpperChars) : UpperChars[i] = c
    THEN LowerChars[CHOOSE i \in 1..Len(UpperChars) : UpperChars[i] = c]
    ELSE c

\* value.replace(/\\/g, '/') on one character
replaceBackslash(c) == IF c = "\\" THEN "/" ELSE c

\* String.prototype.includes
includes(haystack, needle) ==
    \E i \in 0..(Len(haystack) - Len(needle)) :
        SubSeq(haystack, i + 1, i + Len(needle)) = needle

\* String.prototype.startsWith
startsWith(s, prefix) ==
    /\ Len(prefix) <= Len(s)
    /\ SubSeq(s, 1, Len(prefix)) = prefix

normalizePath(value) ==
    [i \in 1..Len(value) |-> toLowerCase(replaceBackslash(value[i]))]

(***************************************************************************)
(* Component matcher                                                       *)
(***************************************************************************)
\* one element of indexedExtensions
ExtensionIndexEntry(extension) ==
    [id      |-> extension.id,
     path    |-> normalizePath(extension.extensionPath),
     idLower |-> [i \in 1..Len(extension.id) |-> toLowerCase(extension.id[i])]]

indexedExtensions(extensions) ==
    [i \in 1..Len(extensions) |-> ExtensionIndexEntry(extensions[i])]

\* the condition of the if inside the loop of findBestMatch
Matches(haystack, extension) ==
    includes(haystack, extension.path) \/ includes(haystack, extension.idLower)

Better_ShortestPath(best, extension) ==
    best = None \/ Len(extension.path) < Len(best[1].path)

\* the replacement test of findBestMatch: best is an optional index entry
Better(best, extension) ==
    best = None \/ Len(extension.path) > Len(best[1].path)

RECURSIVE findBestMatchLoop(_, _, _, _)
findBestMatchLoop(haystack, extensions, i, best) ==
    IF i > Len(extensions) THEN best
    ELSE findBestMatchLoop(haystack, extensions, i + 1,
            IF Matches(haystack, extensions[i]) /\ Better(best, extensions[i])
            THEN Some(extensions[i])
            ELSE best)

\* the index scanned from its last entry to its first
findBestMatch_FromLast(command, extensions) ==
    IF command = << >> THEN None
    ELSE findBestMatchLoop(normalizePath(command),
                           [i \in 1..Len(extensions) |->
                               extensions[Len(extensions) + 1 - i]],
                           1, None)

\* findBestMatch: undefined for an empty command, otherwise the loop over the
\* index
findBestMatch(command, extensions) ==
    IF command = << >> THEN None
    ELSE findBestMatchLoop(normalizePath(command), extensions, 1, None)

(***************************************************************************)
(* Process tree walker                                                     *)
(*                                                                         *)
(* A listing is the behaviour of psTree in one walk: for every pid either  *)
(* an error or the sequence of entries it reports.  An entry carries the   *)
(* numeric value of its PID and PPID strings; NaN stands for a string      *)
(* that Number() does not parse.                                           *)
(***************************************************************************)
NaN == -1

isFinite(n) == n # NaN

\* getProcessTree: the promise rejects on error, resolves with children || []
getProcessTree(listing, pid) ==
    IF pid \in DOMAIN listing THEN listing[pid]
    ELSE [error |-> FALSE, children |-> << >>]

RECURSIVE collect(_, _, _)
RECURSIVE collectChildren(_, _, _, _)

\* the for loop of collect over the children of one pid, from position i
collectChildren(listing, children, i, st) ==
    IF st.rejected \/ i > Len(children) THEN st
    ELSE LET child    == children[i]
             childPid == child.PID
         IN IF isFinite(childPid) /\ childPid > 0
            THEN collectChildren(listing, children, i + 1,
                    collect(listing, childPid,
                            [st EXCEPT !.allChildren = Append(@, child)]))
            ELSE collectChildren(listing, children, i + 1, st)

\* the inner function collect of getAllDescendants
collect(listing, pid, st) ==
    IF st.rejected \/ pid \in st.visited THEN st
    ELSE LET visitedSt == [st EXCEPT !.visited = @ \cup {pid}]
             tree      == getProcessTree(listing, pid)
         IN IF tree.error
            THEN [visitedSt EXCEPT !.rejected = TRUE]
            ELSE collectChildren(listing, tree.children, 1, visitedSt)

\* rejected: the promise of getAllDescendants rejects; otherwise it resolves
\* with allChildren
getAllDescendants(listing, rootPid) ==
    collect(listing, rootPid,
            [allChildren |-> << >>, visited |-> {}, rejected |-> FALSE])

resolveCommand(entry) ==
    IF entry.COMMAND_LINE # << >> THEN entry.COMMAND_LINE
    ELSE IF entry.COMMAND # << >> THEN entry.COMMAND
    ELSE entry.COMM

(***************************************************************************)
(* Subprocess attribution engine                                           *)
(***************************************************************************)
BYTES_PER_MB == 1024 * 1024

\* an id the map does not hold answered with the first entry of the index
extensionsByIdGet_FirstWhenMissing(index, id) ==
    LET hits == {i \in 1..Len(index) : index[i].id = id}
    IN IF hits = {} THEN (IF Len(index) = 0 THEN None ELSE Some(index[1]))
       ELSE Some(index[CHOOSE i \in hits : \A j \in hits : j <= i])

\* extensionsById.get(id): a later entry with the same id replaces an earlier
extensionsByIdGet(index, id) ==
    LET hits == {i \in 1..Len(index) : index[i].id = id}
    IN IF hits = {} THEN None
       ELSE Some(index[CHOOSE i \in hits : \A j \in hits : j <= i])

\* the SubprocessUsage built for one child; usage.memory is a whole number of
\* megabytes in every input of this model, so the division is exact
SubprocessUsage(child, usage) ==
    [pid     |-> child.PID,
     ppid    |-> IF child.PPID = NaN THEN 0 ELSE child.PPID,
     command |-> resolveCommand(child),
     cpu     |-> IF usage.cpu = None THEN 0 ELSE usage.cpu[1],
     memory  |-> IF usage.memory # 0 THEN usage.memory \div BYTES_PER_MB ELSE 0]

\* the heuristic first, the override map only when it finds nothing
matchOf_HeuristicFirst(child, index, options) ==
    IF findBestMatch(resolveCommand(child), index) # None
    THEN findBestMatch(resolveCommand(child), index)
    ELSE IF child.PID \in DOMAIN options.pidToExtensionId
    THEN extensionsByIdGet(index, options.pidToExtensionId[child.PID])
    ELSE None

\* the match of one child: the override map first, the heuristic otherwise
matchOf(child, index, options) ==
    IF child.PID \in DOMAIN options.pidToExtensionId
       /\ options.pidToExtensionId[child.PID] # << >>
    THEN extensionsByIdGet(index, options.pidToExtensionId[child.PID])
    ELSE findBestMatch(resolveCommand(child), index)

\* a reading of zero for a pid the sampler reported nothing for
readingOf_ZeroWhenMissing(usageStats, pid) ==
    IF pid \in DOMAIN usageStats THEN Some(usageStats[pid])
    ELSE Some([cpu |-> None, memory |-> 0])

\* usageStats[String(pid)]: the reading of one pid, if the sampler reported one
readingOf(usageStats, pid) ==
    IF pid \in DOMAIN usageStats THEN Some(usageStats[pid]) ELSE None

\* statsByExtension after existing has absorbed one more entry
accumulate(statsByExtension, id, entry) ==
    LET existing == IF id \in DOMAIN statsByExtension
                    THEN statsByExtension[id]
                    ELSE [extensionId |-> id, totalCpu |-> 0, totalMemory |-> 0,
                          processCount |-> 0, processes |-> << >>]
        updated  == [existing EXCEPT !.totalCpu = @ + entry.cpu,
                                     !.totalMemory = @ + entry.memory,
                                     !.processCount = @ + 1,
                                     !.processes = Append(@, entry)]
    IN (id :> updated) @@ statsByExtension

RECURSIVE attributeLoop(_, _, _, _, _, _)
\* the for loop of collectSubprocessStats over children, from position i
attributeLoop(children, i, usageStats, index, options, statsByExtension) ==
    IF i > Len(children) THEN statsByExtension
    ELSE LET child == children[i]
             pid   == child.PID
             usage == readingOf(usageStats, pid)
             match == matchOf(child, index, options)
         IN attributeLoop(children, i + 1, usageStats, index, options,
                IF ~isFinite(pid) \/ usage = None \/ match = None
                THEN statsByExtension
                ELSE accumulate(statsByExtension, match[1].id,
                                SubprocessUsage(child, usage[1])))

EmptyMap == [k \in {} |-> 0]

\* threw: the returned promise rejects; otherwise it resolves with stats.
\* sampling is the behaviour of pidusage: an error or the readings by pid.
collectSubprocessStats(extensions, options, listing, sampling) ==
    LET index    == indexedExtensions(extensions)
        walk     == getAllDescendants(listing, options.rootPid)
        children == walk.allChildren
        pids     == SelectSeq([i \in 1..Len(children) |-> children[i].PID],
                              LAMBDA pid : isFinite(pid) /\ pid > 0)
    IN IF walk.rejected THEN [threw |-> TRUE, stats |-> EmptyMap]
       ELSE IF Len(children) = 0 \/ Len(pids) = 0 \/ sampling.error
       THEN [threw |-> FALSE, stats |-> EmptyMap]
       ELSE [threw |-> FALSE,
             stats |-> attributeLoop(children, 1, sampling.stats, index,
                                     options, EmptyMap)]

(***************************************************************************)
(* History records                                                         *)
(***************************************************************************)
MAX_HISTORY == 1000

AVERAGE_WINDOW == 100

MS_PER_DAY == 24 * 60 * 60 * 1000

\* Array.prototype.slice(-n)
sliceLast(seq, n) ==
    IF Len(seq) <= n THEN seq ELSE SubSeq(seq, Len(seq) - n + 1, Len(seq))

RECURSIVE reduceRange(_, _, _, _)
\* the sum of field over seq[lo..hi] (the range is halved to keep the
\* evaluation shallow; the sum is exact, so the order of addition is immaterial)
reduceRange(seq, field, lo, hi) ==
    IF lo > hi THEN 0
    ELSE IF lo = hi THEN seq[lo][field]
    ELSE LET mid == (lo + hi) \div 2
         IN reduceRange(seq, field, lo, mid) + reduceRange(seq, field, mid + 1, hi)

\* seq.reduce((sum, m) => sum + m[field], 0)
reduceSum(seq, field) == reduceRange(seq, field, 1, Len(seq))

\* the field names of ExtensionMetrics that updateHistory reads
cpuOf == "cpuUsage"

memoryOf == "memoryUsage"

\* the history object created when the map has none for the id
newHistory(id) ==
    [extensionId |-> id,
     metrics     |-> << >>,
     averages    |-> [cpu |-> [num |-> 0, den |-> 1], memory |-> [num |-> 0, den |-> 1]],
     peaks       |-> [cpu    |-> [value |-> 0, timestamp |-> 0],
                      memory |-> [value |-> 0, timestamp |-> 0]]]

\* a cap that keeps the oldest entries: slice(0, 1000) for slice(-1000)
cappedMetrics_KeepOldest(metrics, metric) ==
    LET pushed == Append(metrics, metric)
    IN IF Len(pushed) > MAX_HISTORY THEN SubSeq(pushed, 1, MAX_HISTORY) ELSE pushed

\* history.metrics after the push and the size cap
cappedMetrics(metrics, metric) ==
    LET pushed == Append(metrics, metric)
    IN IF Len(pushed) > MAX_HISTORY THEN sliceLast(pushed, MAX_HISTORY) ELSE pushed

\* an average over the whole series: the slice(-100) left out
averageOf_WholeSeries(metrics, field) ==
    [num |-> reduceSum(metrics, field), den |-> Len(metrics)]

\* the quotient sum / recentMetrics.length, kept exact
averageOf(metrics, field) ==
    LET recentMetrics == sliceLast(metrics, AVERAGE_WINDOW)
    IN [num |-> reduceSum(recentMetrics, field), den |-> Len(recentMetrics)]

\* a peak that follows the latest sample: the comparison left out
peakAfter_Latest(peak, value, timestamp) ==
    [value |-> value, timestamp |-> timestamp]

\* one of the two peak updates
peakAfter(peak, value, timestamp) ==
    IF value > peak.value THEN [value |-> value, timestamp |-> timestamp] ELSE peak

\* the history object of metric.id after updateHistory(metric)
historyAfter(history, metric) ==
    LET metrics == cappedMetrics(history.metrics, metric)
    IN [extensionId |-> history.extensionId,
        metrics     |-> metrics,
        averages    |-> [cpu    |-> averageOf(metrics, cpuOf),
                         memory |-> averageOf(metrics, memoryOf)],
        peaks       |-> [cpu    |-> peakAfter(history.peaks.cpu, metric.cpuUsage,
                                              metric.timestamp),
                         memory |-> peakAfter(history.peaks.memory, metric.memoryUsage,
                                              metric.timestamp)]]

\* records that share one averages object: the averages written for id show
\* in every record
performanceHistorySet_SharedAverages(history, id, record) ==
    [k \in DOMAIN history \cup {id} |->
        IF k = id THEN record
        ELSE [history[k] EXCEPT !.averages = record.averages]]

\* the map once the record of id is the one updateHistory has worked on: a
\* new record is entered with performanceHistory.set, an existing one is
\* changed in place, and every record is an object of its own
performanceHistorySet(history, id, record) == (id :> record) @@ history

\* an update that records only into a record that exists already
updateHistory_OnlyExisting(history, metric) ==
    IF metric.id \in DOMAIN history
    THEN (metric.id :> historyAfter(history[metric.id], metric)) @@ history
    ELSE history

\* performanceHistory after updateHistory(metric)
updateHistory(history, metric) ==
    LET existing == IF metric.id \in DOMAIN history THEN history[metric.id]
                    ELSE newHistory(metric.id)
    IN performanceHistorySet(history, metric.id, historyAfter(existing, metric))

\* the filter predicate of cleanupOldData
retained(m, cutoffTime) == m.timestamp > cutoffTime

\* a cleanup that also deletes the records it has emptied
cleanupOldData_DropsEmpty(history, t, retentionDays) ==
    LET cutoffTime == t - (retentionDays * MS_PER_DAY)
        kept       == {k \in DOMAIN history :
                          \E i \in 1..Len(history[k].metrics) :
                              retained(history[k].metrics[i], cutoffTime)}
    IN [k \in kept |->
            [history[k] EXCEPT !.metrics =
                SelectSeq(@, LAMBDA m : retained(m, cutoffTime))]]

\* performanceHistory after cleanupOldData at time t
cleanupOldData(history, t, retentionDays) ==
    LET cutoffTime == t - (retentionDays * MS_PER_DAY)
    IN [k \in DOMAIN history |->
            [history[k] EXCEPT !.metrics =
                SelectSeq(@, LAMBDA m : retained(m, cutoffTime))]]

(***************************************************************************)
(* State                                                                   *)
(***************************************************************************)
VARIABLES
    now,                 \* Date.now(), in milliseconds since the monitor was built
    isMonitoringActive,  \* PerformanceMonitor.isMonitoringActive
    monitoringInterval,  \* PerformanceMonitor.monitoringInterval: a timer id, 0 = undefined
    timers,              \* the interval timers of startMonitoring that are armed
    rounds,              \* the executions of collectMetrics in flight, oldest first
    performanceHistory,  \* PerformanceMonitor.performanceHistory
    currentMetrics,      \* PerformanceMonitor.currentMetrics
    subprocessStats,     \* PerformanceMonitor.subprocessStats
    persisted,           \* globalState 'performanceHistory': optional map
    inserted,            \* history: per id, the points recorded since the last clear
    ghost,               \* history: calls made so far and the last operation
    env,                 \* the environment so far: its stream of samples and its events
    attr,                \* the input and result of the attribution specification
    alerts,              \* the alerts shown by showAlert so far, oldest first
    held,                \* the record a caller of getExtensionHistory holds: optional
    steps,               \* history: the steps a round has taken so far, in order
    fired,               \* the number of onMetricsUpdated.fire calls so far
    matched              \* history: the first call of the matcher and what followed it

vars == <<now, isMonitoringActive, monitoringInterval, timers, rounds,
          performanceHistory, currentMetrics, subprocessStats, persisted,
          inserted, ghost, env, attr, alerts, held, steps, fired, matched>>

schedulerVars == <<isMonitoringActive, monitoringInterval, timers, rounds>>

(***************************************************************************)
(* The installed extensions (vscode.extensions.all)                        *)
(***************************************************************************)
ID_BUILTIN == <<"v", "s", "c", "o", "d", "e", ".", "g", "i", "t">>

ID_A == <<"p", "u", "b", ".", "a">>

ID_B == <<"p", "u", "b", ".", "b">>

EXT_BUILTIN ==
    [id |-> ID_BUILTIN, extensionPath |-> <<"/", "a", "p", "p", "/", "g", "i", "t">>,
     isActive |-> TRUE]

EXT_A == [id |-> ID_A, extensionPath |-> <<"/", "e", "x", "t", "/", "a">>, isActive |-> TRUE]

EXT_B == [id |-> ID_B, extensionPath |-> <<"/", "e", "x", "t", "/", "b">>, isActive |-> FALSE]

Extensions == <<EXT_BUILTIN, EXT_A, EXT_B>>

\* the prefix tested by collectMetrics to skip built-in extensions
BUILTIN_PREFIX == <<"v", "s", "c", "o", "d", "e", ".">>

(***************************************************************************)
(* Values of the parts of the state a specification does not use           *)
(***************************************************************************)
IdleScheduler ==
    /\ isMonitoringActive = FALSE
    /\ monitoringInterval = 0
    /\ timers = {}
    /\ rounds = << >>

\* lastCall: the latest of the startMonitoring and stopMonitoring calls
\* ("early" for a startMonitoring that returned at its guard)
IdleGhost == [lastCall |-> "none", everStopped |-> FALSE, immediateRounds |-> 0,
              last |-> "init"]

IdleEnv == [stream |-> 0, n |-> 0, fresh |-> 0, rounds |-> 0,
            timeSteps |-> 0, cleanups |-> 0, retentionDays |-> 0, clears |-> 0]

IdleAttr == [ran |-> FALSE]

IdleMatched == [first |-> None, between |-> FALSE]

(***************************************************************************)
(* Ledger specification: one HistoryRecord fed by a long stream of points  *)
(***************************************************************************)
MaxInserts == 3

MaxTimeSteps == 1

MaxCleanups == 1

MaxClears == 1

\* the streams of samples: 1 = cpu falling and memory rising, 2 = cpu cycling
\* through 0, 1, 2 and memory constant
LedgerStreams == {1, 2}

StreamCpu(stream, i) == IF stream = 1 THEN 2000 - i ELSE i % 3

StreamMemory(stream, i) == IF stream = 1 THEN 2 * i ELSE 2

\* the number of points of the stream that earlier sessions recorded and
\* saved, and that the constructor loads (loadHistoricalData)
LedgerPreloads == {0, 98, 998, 1497}

\* values of historyRetentionDays
RetentionChoices == {0, 1}

\* point i of a stream; it was recorded at time i
LedgerPoint(stream, i) ==
    [id |-> ID_A, isActive |-> TRUE, cpuUsage |-> StreamCpu(stream, i),
     memoryUsage |-> StreamMemory(stream, i), timestamp |-> i, subprocessCount |-> 0]

\* inserted after a point was recorded
logged(log, metric) ==
    (metric.id :> Append(IF metric.id \in DOMAIN log THEN log[metric.id] ELSE << >>,
                         metric)) @@ log

RECURSIVE ReplayRange(_, _, _, _)
\* history after updateHistory has recorded the points lo..hi of a stream, one
\* after the other (the range is halved, and the first half evaluated before
\* the second is entered, to keep the evaluation shallow)
ReplayRange(history, stream, lo, hi) ==
    IF lo > hi THEN history
    ELSE IF lo = hi THEN updateHistory(history, LedgerPoint(stream, lo))
    ELSE LET mid   == (lo + hi) \div 2
             first == ReplayRange(history, stream, lo, mid)
         IN IF DOMAIN first = {} THEN first
            ELSE ReplayRange(first, stream, mid + 1, hi)

\* performanceHistory after the first k points of a stream were recorded,
\* starting from the empty map
Replay(stream, k) == ReplayRange(EmptyMap, stream, 1, k)

ReplayLog(stream, k) ==
    IF k = 0 THEN EmptyMap ELSE (ID_A :> [i \in 1..k |-> LedgerPoint(stream, i)])

LedgerInit ==
    /\ IdleScheduler
    /\ currentMetrics = << >>
    /\ subprocessStats = EmptyMap
    /\ ghost = IdleGhost
    /\ alerts = << >>
    /\ held = None
    /\ steps = << >>
    /\ fired = 0
    /\ matched = IdleMatched
    /\ attr = IdleAttr
    /\ \E stream \in LedgerStreams, k \in LedgerPreloads :
          /\ env = [IdleEnv EXCEPT !.stream = stream, !.n = k]
          /\ now = k
          /\ performanceHistory = Replay(stream, k)
          /\ persisted = IF k = 0 THEN None ELSE Some(performanceHistory)
          /\ inserted = ReplayLog(stream, k)

\* getExtensionHistory: the caller receives the record object of the map
\* itself; returned is its content when the call returned, object its content
\* now, and attached tells that the map still holds the object
getExtensionHistory(history, extensionId) ==
    IF extensionId \in DOMAIN history
    THEN Some([extensionId |-> extensionId, returned |-> history[extensionId],
               object |-> history[extensionId], attached |-> TRUE])
    ELSE None

\* the record a caller holds after the monitor has changed its records in
\* place: updateHistory and cleanupOldData assign to the fields of the object
\* in the map
seenThrough(reference, history) ==
    IF reference # None /\ reference[1].attached
    THEN Some([reference[1] EXCEPT !.object = history[reference[1].extensionId]])
    ELSE reference

\* the record a caller holds after performanceHistory.clear(): the object
\* has left the map and is written no more
detached(reference) ==
    IF reference # None THEN Some([reference[1] EXCEPT !.attached = FALSE])
    ELSE reference

\* one millisecond later the next point of the stream is recorded
LedgerRecord ==
    /\ env.fresh < MaxInserts
    /\ now' = now + 1
    /\ LET metric == [LedgerPoint(env.stream, env.n + 1) EXCEPT !.timestamp = now']
       IN /\ performanceHistory' = updateHistory(performanceHistory, metric)
          /\ inserted' = logged(inserted, metric)
    /\ held' = seenThrough(held, performanceHistory')
    /\ env' = [env EXCEPT !.n = @ + 1, !.fresh = @ + 1]
    /\ ghost' = [ghost EXCEPT !.last = "record"]
    /\ UNCHANGED <<matched, fired, steps, alerts, schedulerVars, currentMetrics,
                   subprocessStats,
                   persisted, attr>>

\* the host sleeps for a day
LedgerDayPasses ==
    /\ env.timeSteps < MaxTimeSteps
    /\ now' = now + MS_PER_DAY
    /\ env' = [env EXCEPT !.timeSteps = @ + 1]
    /\ ghost' = [ghost EXCEPT !.last = "time"]
    /\ UNCHANGED <<matched, fired, steps, held, alerts, schedulerVars, performanceHistory,
                   currentMetrics,
                   subprocessStats,
                   persisted, inserted, attr>>

\* the callback of the timer of scheduleDataCleanup
LedgerCleanup ==
    /\ env.cleanups < MaxCleanups
    /\ \E retentionDays \in RetentionChoices :
          /\ performanceHistory' = cleanupOldData(performanceHistory, now, retentionDays)
          /\ env' = [env EXCEPT !.cleanups = @ + 1, !.retentionDays = retentionDays]
    /\ held' = seenThrough(held, performanceHistory')
    /\ ghost' = [ghost EXCEPT !.last = "cleanup"]
    /\ UNCHANGED <<matched, fired, steps, alerts, now, schedulerVars, currentMetrics,
                   subprocessStats,
                   persisted,
                   inserted, attr>>

clearHistory_KeepsRecords(history) == history

\* performanceHistory after performanceHistory.clear()
clearHistory(history) == EmptyMap

\* clearHistory
LedgerClear ==
    /\ env.clears < MaxClears
    /\ performanceHistory' = clearHistory(performanceHistory)
    /\ persisted' = None
    /\ inserted' = EmptyMap
    /\ env' = [env EXCEPT !.clears = @ + 1]
    /\ held' = detached(held)
    /\ ghost' = [ghost EXCEPT !.last = "clear"]
    /\ UNCHANGED <<matched, fired, steps, alerts, now, schedulerVars, currentMetrics,
                   subprocessStats,
                   attr>>

\* a caller asks for the record of extension A and keeps what it receives
LedgerGet ==
    /\ held' = getExtensionHistory(performanceHistory, ID_A)
    /\ ghost' = [ghost EXCEPT !.last = "get"]
    /\ UNCHANGED <<matched, fired, steps, alerts, now, schedulerVars, performanceHistory,
                   currentMetrics,
                   subprocessStats, persisted, inserted, env, attr>>

LedgerNext == LedgerRecord \/ LedgerDayPasses \/ LedgerCleanup \/ LedgerClear

LedgerSpec == LedgerInit /\ [][LedgerNext]_vars

(***************************************************************************)
(* Reader specification: the ledger operations with a caller of            *)
(* getExtensionHistory that keeps the record it received                   *)
(***************************************************************************)
\* the history lengths the reader specification starts from
ReaderPreloads == {0, 98}

ReaderInit == LedgerInit /\ env.n \in ReaderPreloads

ReaderNext == LedgerNext \/ LedgerGet

ReaderSpec == ReaderInit /\ [][ReaderNext]_vars

(***************************************************************************)
(* Monitor specification: the scheduler, the rounds and the history        *)
(***************************************************************************)
\* the rounds begun and the cleanup callbacks of a behaviour, taken together
MaxEvents == 2

\* DEFAULTS.MONITORING_INTERVAL, the period of the timer of startMonitoring
MONITORING_INTERVAL == 5000

\* the period of the timer of scheduleDataCleanup
CLEANUP_INTERVAL == 60 * 60 * 1000

\* the value of the setting historyRetentionDays
HISTORY_RETENTION_DAYS == 1

ROOT_PID == 1

\* a psTree entry as produced on POSIX hosts: only COMMAND is set
Entry(pid, ppid, command) ==
    [PID |-> pid, PPID |-> ppid, COMMAND_LINE |-> << >>, COMMAND |-> command,
     COMM |-> << >>]

CMD_A_SERVER == <<"/", "e", "x", "t", "/", "a", "/", "b", "i", "n", "/",
                  "s", "e", "r", "v", "e", "r">>

\* collectMetrics calls collectSubprocessStats without options
DefaultOptions == [pidToExtensionId |-> EmptyMap, rootPid |-> ROOT_PID]

\* a listing and a sampling under which no process is found: psTree fails for
\* the root pid
HOST_LISTING_FAILS ==
    [listing  |-> (ROOT_PID :> [error |-> TRUE, children |-> << >>]),
     sampling |-> [error |-> FALSE, stats |-> EmptyMap]]

\* one child process, a server of extension A, above both alert thresholds
HOST_A_BUSY ==
    [listing  |-> (ROOT_PID :> [error |-> FALSE,
                                children |-> <<Entry(2, ROOT_PID, CMD_A_SERVER)>>]),
     sampling |-> [error |-> FALSE,
                   stats |-> (2 :> [cpu |-> Some(81), memory |-> 120 * BYTES_PER_MB])]]

\* the child process of HOST_A_BUSY is listed and pidusage fails
HOST_SAMPLING_FAILS ==
    [listing  |-> HOST_A_BUSY.listing,
     sampling |-> [error |-> TRUE, stats |-> EmptyMap]]

\* what one round meets: the outcome of its collectSubprocessStats call, the
\* results of estimateCpuUsage and estimateMemoryUsage (which draw on
\* Math.random), by extension id, and whether globalState.update fails in
\* saveHistoricalData; failure names what failed in the attribution
RoundInputs ==
    { [attribution |-> collectSubprocessStats(Extensions, DefaultOptions,
                            HOST_LISTING_FAILS.listing, HOST_LISTING_FAILS.sampling),
       failure     |-> "listing",
       estimates   |-> [id \in {ID_A, ID_B} |-> [cpu |-> 0, memory |-> 2]],
       saveFails   |-> FALSE],
      [attribution |-> collectSubprocessStats(Extensions, DefaultOptions,
                            HOST_SAMPLING_FAILS.listing, HOST_SAMPLING_FAILS.sampling),
       failure     |-> "sampling",
       estimates   |-> [id \in {ID_A, ID_B} |-> [cpu |-> 0, memory |-> 2]],
       saveFails   |-> FALSE],
      [attribution |-> collectSubprocessStats(Extensions, DefaultOptions,
                            HOST_A_BUSY.listing, HOST_A_BUSY.sampling),
       failure     |-> "none",
       estimates   |-> [id \in {ID_A, ID_B} |-> [cpu |-> 2, memory |-> 9]],
       saveFails   |-> FALSE],
      [attribution |-> collectSubprocessStats(Extensions, DefaultOptions,
                            HOST_A_BUSY.listing, HOST_A_BUSY.sampling),
       failure     |-> "none",
       estimates   |-> [id \in {ID_A, ID_B} |-> [cpu |-> 2, memory |-> 9]],
       saveFails   |-> TRUE] }

isBuiltin(extension) == startsWith(extension.id, BUILTIN_PREFIX)

MonitoredIds == {Extensions[i].id : i \in {j \in 1..Len(Extensions) : ~isBuiltin(Extensions[j])}}

\* the metric built from the estimates whatever the attribution found
metricOf_AlwaysEstimate(extension, stats, estimate, timestamp) ==
    [id              |-> extension.id,
     isActive        |-> extension.isActive,
     cpuUsage        |-> estimate.cpu,
     memoryUsage     |-> estimate.memory,
     timestamp       |-> timestamp,
     subprocessCount |-> IF extension.id \in DOMAIN stats
                         THEN stats[extension.id].processCount ELSE 0]

\* the metric collectMetrics builds for one extension
metricOf(extension, stats, estimate, timestamp) ==
    LET known           == extension.id \in DOMAIN stats
        processCpu      == IF known THEN stats[extension.id].totalCpu ELSE 0
        processMemory   == IF known THEN stats[extension.id].totalMemory ELSE 0
        subprocessCount == IF known THEN stats[extension.id].processCount ELSE 0
        useProcessUsage == subprocessCount > 0
    IN [id              |-> extension.id,
        isActive        |-> extension.isActive,
        cpuUsage        |-> IF useProcessUsage THEN processCpu ELSE estimate.cpu,
        memoryUsage     |-> IF useProcessUsage THEN processMemory ELSE estimate.memory,
        timestamp       |-> timestamp,
        subprocessCount |-> subprocessCount]

\* the values of the settings alertThresholds.cpu and alertThresholds.memory
CPU_ALERT_THRESHOLD == 80

MEMORY_ALERT_THRESHOLD == 100

\* the PerformanceAlert handed to showAlert
Alert(type, metric, threshold) ==
    [type        |-> type,
     extensionId |-> metric.id,
     value       |-> IF type = "cpu" THEN metric.cpuUsage ELSE metric.memoryUsage,
     threshold   |-> threshold,
     timestamp   |-> metric.timestamp]

checkAlerts_AtThreshold(metric, cpuThreshold, memoryThreshold) ==
    (IF metric.cpuUsage >= cpuThreshold
     THEN <<Alert("cpu", metric, cpuThreshold)>> ELSE << >>)
    \o (IF metric.memoryUsage >= memoryThreshold
        THEN <<Alert("memory", metric, memoryThreshold)>> ELSE << >>)

\* checkAlerts: the alerts it hands to showAlert for one metric, in order
checkAlerts(metric, cpuThreshold, memoryThreshold) ==
    (IF metric.cpuUsage > cpuThreshold
     THEN <<Alert("cpu", metric, cpuThreshold)>> ELSE << >>)
    \o (IF metric.memoryUsage > memoryThreshold
        THEN <<Alert("memory", metric, memoryThreshold)>> ELSE << >>)

\* the alerts of raised whose type and extension have no alert in shown
unseen(shown, raised) ==
    SelectSeq(raised, LAMBDA a : \A i \in 1..Len(shown) :
                  shown[i].type # a.type \/ shown[i].extensionId # a.extensionId)

showAlert_OncePerExtension(shown, raised) == shown \o unseen(shown, raised)

\* showAlert for each alert of raised: every one is shown and logged
showAlert(shown, raised) == shown \o raised

RECURSIVE collectLoop(_, _, _, _, _, _)
\* the for loop of collectMetrics over the extensions, from position i;
\* acc carries metrics, performanceHistory, the log of recorded points and the
\* alerts shown
collectLoop(extensions, i, stats, estimates, timestamp, acc) ==
    IF i > Len(extensions) THEN acc
    ELSE IF isBuiltin(extensions[i])
    THEN collectLoop(extensions, i + 1, stats, estimates, timestamp, acc)
    ELSE LET metric == metricOf(extensions[i], stats, estimates[extensions[i].id],
                                timestamp)
         IN collectLoop(extensions, i + 1, stats, estimates, timestamp,
                [metrics |-> Append(acc.metrics, metric),
                 history |-> updateHistory(acc.history, metric),
                 log     |-> logged(acc.log, metric),
                 alerts  |-> showAlert(acc.alerts,
                                       checkAlerts(metric, CPU_ALERT_THRESHOLD,
                                                   MEMORY_ALERT_THRESHOLD))])

\* the entry of collectMetrics: the timestamp is taken and the attribution awaited
beginRound(kind, timestamp) ==
    /\ env.rounds + env.cleanups < MaxEvents
    /\ env' = [env EXCEPT !.rounds = @ + 1]
    /\ rounds' = Append(rounds, [id |-> env.rounds + 1, kind |-> kind, pc |-> "attr",
                                 timestamp |-> timestamp, failed |-> FALSE,
                                 saved |-> TRUE, cleared |-> FALSE,
                                 stopped |-> FALSE])

\* the rounds in flight without the one at position r
finished(r) == [i \in 1..(Len(rounds) - 1) |-> IF i < r THEN rounds[i] ELSE rounds[i + 1]]

startReturnsEarly_Never(active) == FALSE

\* the guard at the head of startMonitoring
startReturnsEarly(active) == active

Init ==
    /\ now = 0
    /\ IdleScheduler
    /\ performanceHistory = EmptyMap
    /\ currentMetrics = << >>
    /\ subprocessStats = EmptyMap
    /\ persisted = None
    /\ inserted = EmptyMap
    /\ ghost = IdleGhost
    /\ alerts = << >>
    /\ held = None
    /\ steps = << >>
    /\ fired = 0
    /\ matched = IdleMatched
    /\ env = IdleEnv
    /\ attr = IdleAttr

\* startMonitoring up to its await of the initial collectMetrics
StartMonitoring ==
    /\ IF startReturnsEarly(isMonitoringActive)
       THEN /\ ghost' = [ghost EXCEPT !.lastCall = "early"]
            /\ UNCHANGED <<isMonitoringActive, rounds, env>>
       ELSE /\ ghost' = [ghost EXCEPT !.lastCall = "start", !.immediateRounds = @ + 1]
            /\ isMonitoringActive' = TRUE
            /\ beginRound("start", now)
    /\ UNCHANGED <<matched, fired, steps, held, alerts, now, monitoringInterval, timers,
                   performanceHistory,
                   currentMetrics,
                   subprocessStats, persisted, inserted, attr>>

\* the timers left armed by stopMonitoring
stopMonitoring(handle, armed) == IF handle # 0 THEN armed \ {handle} ELSE armed

roundsAfterStop_Preempted(inFlight) == << >>

\* the rounds in flight after stopMonitoring, which touches none of them;
\* each is marked as having met a stop
roundsAfterStop(inFlight) ==
    [r \in DOMAIN inFlight |-> [inFlight[r] EXCEPT !.stopped = TRUE]]

StopMonitoring ==
    /\ timers' = stopMonitoring(monitoringInterval, timers)
    /\ monitoringInterval' = 0
    /\ isMonitoringActive' = FALSE
    /\ rounds' = roundsAfterStop(rounds)
    /\ ghost' = [ghost EXCEPT !.everStopped = TRUE, !.lastCall = "stop"]
    /\ UNCHANGED <<matched, fired, steps, held, alerts, now, performanceHistory,
                   currentMetrics, subprocessStats, persisted, inserted, env, attr>>

\* the callback of the interval timer of startMonitoring fires, a period
\* after the event before it
TimerTick ==
    /\ now' = now + MONITORING_INTERVAL
    /\ \E t \in timers : beginRound("tick", now + MONITORING_INTERVAL)
    /\ UNCHANGED <<matched, fired, steps, held, alerts, isMonitoringActive,
                   monitoringInterval,
                   timers,
                   performanceHistory, currentMetrics, subprocessStats, persisted,
                   inserted, ghost, attr>>

\* the refresh command, the resources page or the webview refresh call
\* collectMetrics
ManualCollect ==
    /\ beginRound("manual", now)
    /\ UNCHANGED <<matched, fired, steps, held, alerts, now, isMonitoringActive,
                   monitoringInterval, timers,
                   performanceHistory, currentMetrics, subprocessStats, persisted,
                   inserted, ghost, attr>>

attributionErrorPropagates_Uncaught(threw) == threw

\* the try/catch of collectMetrics around collectSubprocessStats: a rejection
\* is logged and never leaves collectMetrics
attributionErrorPropagates(threw) == FALSE

saveErrorPropagates_Uncaught(failed) == failed

\* the try/catch of saveHistoricalData: a rejection of globalState.update is
\* logged and never leaves saveHistoricalData
saveErrorPropagates(failed) == FALSE

\* collectMetrics from the return of collectSubprocessStats to its await of
\* the save: no other callback runs in between
RoundAttributed(r) ==
    /\ rounds[r].pc = "attr"
    /\ \E input \in RoundInputs :
          IF attributionErrorPropagates(input.attribution.threw)
          THEN /\ rounds' = finished(r)
               /\ UNCHANGED <<subprocessStats, performanceHistory, inserted,
                              currentMetrics, persisted, alerts, fired>>
          ELSE LET stats == IF input.attribution.threw THEN EmptyMap
                            ELSE input.attribution.stats
                   done  == collectLoop(Extensions, 1, stats, input.estimates,
                                        rounds[r].timestamp,
                                        [metrics |-> << >>, history |-> performanceHistory,
                                         log |-> inserted, alerts |-> alerts])
               IN /\ subprocessStats' = stats
                  /\ performanceHistory' = done.history
                  /\ inserted' = done.log
                  /\ currentMetrics' = done.metrics
                  /\ alerts' = done.alerts
                  /\ fired' = fired + 1
                  /\ persisted' = IF input.saveFails THEN persisted
                                  ELSE Some(done.history)
                  /\ rounds' = [rounds EXCEPT ![r].pc = "save",
                                              ![r].failed = input.failure # "none",
                                              ![r].saved = ~input.saveFails]
    /\ UNCHANGED <<matched, steps, held, now, isMonitoringActive, monitoringInterval,
                   timers,
                   ghost, env, attr>>

\* the save settles and collectMetrics returns; the round of a startMonitoring
\* call continues into setInterval
RoundSaved(r) ==
    /\ rounds[r].pc = "save"
    /\ rounds' = finished(r)
    /\ IF rounds[r].kind = "start" /\ ~saveErrorPropagates(~rounds[r].saved)
       THEN /\ timers' = timers \cup {rounds[r].id}
            /\ monitoringInterval' = rounds[r].id
       ELSE UNCHANGED <<timers, monitoringInterval>>
    /\ UNCHANGED <<matched, fired, steps, held, alerts, now, isMonitoringActive,
                   performanceHistory,
                   currentMetrics,
                   subprocessStats, persisted, inserted, ghost, env, attr>>

\* the callback of the hourly timer of scheduleDataCleanup fires: an hour
\* after the event before it, or after the host was suspended for the
\* retention period
CleanupTimer ==
    /\ env.rounds + env.cleanups < MaxEvents
    /\ \E dt \in {CLEANUP_INTERVAL, HISTORY_RETENTION_DAYS * MS_PER_DAY} : now' = now + dt
    /\ performanceHistory' = cleanupOldData(performanceHistory, now', HISTORY_RETENTION_DAYS)
    /\ env' = [env EXCEPT !.cleanups = @ + 1]
    /\ UNCHANGED <<matched, fired, steps, held, alerts, schedulerVars, currentMetrics,
                   subprocessStats,
                   persisted,
                   inserted, ghost, attr>>

\* clearHistory; every round in flight is marked as having met a clear
ClearHistory ==
    /\ performanceHistory' = clearHistory(performanceHistory)
    /\ persisted' = None
    /\ inserted' = EmptyMap
    /\ rounds' = [r \in DOMAIN rounds |-> [rounds[r] EXCEPT !.cleared = TRUE]]
    /\ UNCHANGED <<matched, fired, steps, held, alerts, now, isMonitoringActive,
                   monitoringInterval, timers,
                   currentMetrics, subprocessStats, ghost, env, attr>>

Next ==
    \/ StartMonitoring
    \/ StopMonitoring
    \/ TimerTick
    \/ ManualCollect
    \/ \E r \in DOMAIN rounds : RoundAttributed(r)
    \/ \E r \in DOMAIN rounds : RoundSaved(r)
    \/ CleanupTimer
    \/ ClearHistory

Spec == Init /\ [][Next]_vars

(***************************************************************************)
(* Attribution specification: findBestMatch, getAllDescendants,           *)
(* collectSubprocessStats and checkAlerts applied to the commands,         *)
(* extension lists, process listings, readings, overrides and metrics      *)
(* below                                                                   *)
(***************************************************************************)
ID_AB == <<"p", "u", "b", ".", "a", "b">>

ID_W == <<"P", "u", "b", ".", "W">>

ID_UNKNOWN == <<"p", "u", "b", ".", "z">>

\* installed below the directory of EXT_A
EXT_AB ==
    [id |-> ID_AB, extensionPath |-> <<"/", "e", "x", "t", "/", "a", "/", "b", "i", "n">>, isActive |-> TRUE]

\* a Windows install path
EXT_W ==
    [id |-> ID_W, extensionPath |-> <<"C", ":", "\\", "E", "x", "t", "\\", "W">>, isActive |-> TRUE]

CMD_B_RUN == <<"/", "e", "x", "t", "/", "b", "/", "r", "u", "n">>

CMD_UNRELATED == <<"/", "u", "n", "r", "e", "l", "a", "t", "e", "d", "/", "x">>

CMD_EMPTY == <<>>

CMD_WINDOWS ==
    <<"c", ":", "/", "E", "X", "T", "/", "w", "/", "r", "u", "n", ".", "e", "x", "e">>

CMD_BY_ID == <<"n", "o", "d", "e", " ", "P", "U", "B", ".", "B">>

CMD_BOTH ==
    <<"/", "e", "x", "t", "/", "b", "/", "x", " ", "/", "e", "x", "t", "/", "a", "/",
      "y">>

CMD_A_HELPER == <<"/", "e", "x", "t", "/", "a", "/", "h", "e", "l", "p", "e", "r">>

MatchCommands ==
    {CMD_A_SERVER, CMD_B_RUN, CMD_UNRELATED, CMD_EMPTY, CMD_WINDOWS, CMD_BY_ID, CMD_BOTH,
     CMD_A_HELPER}

MatchExtensionLists ==
    {<<EXT_A, EXT_B>>, <<EXT_A, EXT_AB>>, <<EXT_AB, EXT_A>>, <<EXT_W>>,
     <<EXT_B, EXT_W, EXT_A>>, << >>}

\* the extensions of the attribution passes
AttributedExtensions == <<EXT_A, EXT_B>>

P_A_SERVER == Entry(2, ROOT_PID, CMD_A_SERVER)

P_A_HELPER == Entry(3, 2, CMD_A_HELPER)

P_B_RUN == Entry(3, ROOT_PID, CMD_B_RUN)

P_UNRELATED == Entry(4, ROOT_PID, CMD_UNRELATED)

\* an entry whose PID string is not a number
P_UNPARSED == Entry(NaN, ROOT_PID, CMD_B_RUN)

\* an entry with no COMMAND_LINE, COMMAND or COMM
P_NAMELESS == Entry(2, ROOT_PID, CMD_EMPTY)

\* a process whose command holds the install paths of B and of A
P_BOTH == Entry(3, ROOT_PID, CMD_BOTH)

Listed(children) == [error |-> FALSE, children |-> children]

\* what psTree reports, by pid
Listings ==
    {(ROOT_PID :> Listed(<<P_A_SERVER, P_B_RUN, P_UNRELATED>>)),
     (ROOT_PID :> Listed(<<P_A_SERVER>>)) @@ (2 :> Listed(<<P_A_HELPER>>)),
     (ROOT_PID :> Listed(<<P_A_SERVER, P_A_HELPER>>)) @@ (2 :> Listed(<<P_A_HELPER>>)),
     (ROOT_PID :> Listed(<<P_UNPARSED, P_A_SERVER>>)),
     (ROOT_PID :> Listed(<<P_NAMELESS, P_BOTH>>)),
     (ROOT_PID :> Listed(<<P_A_SERVER, P_A_SERVER>>)),
     (ROOT_PID :> Listed(<<P_A_SERVER, P_B_RUN>>))
        @@ (2 :> [error |-> TRUE, children |-> << >>]),
     (ROOT_PID :> Listed(<< >>)),
     (ROOT_PID :> [error |-> TRUE, children |-> << >>])}

Reading(cpu, megabytes) == [cpu |-> cpu, memory |-> megabytes * BYTES_PER_MB]

\* what pidusage reports
Samplings ==
    {[error |-> FALSE,
      stats |-> (2 :> Reading(Some(10), 20)) @@ (3 :> Reading(Some(5), 3))
                @@ (4 :> Reading(Some(7), 1))],
     [error |-> FALSE,
      stats |-> (2 :> Reading(Some(10), 20)) @@ (4 :> Reading(Some(7), 1))],
     [error |-> FALSE,
      stats |-> (2 :> Reading(None, 0)) @@ (3 :> Reading(Some(5), 3))],
     [error |-> TRUE, stats |-> EmptyMap]}

\* values of options.pidToExtensionId
Overrides == {EmptyMap, (4 :> ID_B), (2 :> ID_B), (2 :> ID_UNKNOWN)}

AttrInit ==
    /\ IdleScheduler
    /\ now = 0
    /\ performanceHistory = EmptyMap
    /\ currentMetrics = << >>
    /\ subprocessStats = EmptyMap
    /\ persisted = None
    /\ inserted = EmptyMap
    /\ ghost = IdleGhost
    /\ alerts = << >>
    /\ held = None
    /\ steps = << >>
    /\ fired = 0
    /\ matched = IdleMatched
    /\ env = IdleEnv
    /\ attr = IdleAttr

\* one call of findBestMatch on the index of a list of extensions
Match ==
    /\ \E command \in MatchCommands, extensions \in MatchExtensionLists :
          attr' = [ran |-> TRUE, op |-> "match", command |-> command,
                   extensions |-> extensions,
                   result |-> findBestMatch(command, indexedExtensions(extensions))]
    /\ UNCHANGED <<matched, fired, steps, held, alerts, now, schedulerVars,
                   performanceHistory,
                   currentMetrics,
                   subprocessStats, persisted, inserted, ghost, env>>

\* one call of collectSubprocessStats
Attribute ==
    /\ \E listing \in Listings, sampling \in Samplings, pidToExtensionId \in Overrides :
          LET options == [pidToExtensionId |-> pidToExtensionId, rootPid |-> ROOT_PID]
          IN attr' = [ran |-> TRUE, op |-> "attribute",
                      extensions |-> AttributedExtensions, options |-> options,
                      listing |-> listing, sampling |-> sampling,
                      result |-> collectSubprocessStats(AttributedExtensions, options,
                                                        listing, sampling)]
    /\ matched' = [matched EXCEPT !.between = (matched.first # None)]
    /\ UNCHANGED <<fired, steps, held, alerts, now, schedulerVars, performanceHistory,
                   currentMetrics,
                   subprocessStats, persisted, inserted, ghost, env>>

\* one call of getAllDescendants
Walk ==
    /\ \E listing \in Listings :
          attr' = [ran |-> TRUE, op |-> "walk", listing |-> listing, rootPid |-> ROOT_PID,
                   result |-> getAllDescendants(listing, ROOT_PID)]
    /\ UNCHANGED <<matched, fired, steps, held, alerts, now, schedulerVars,
                   performanceHistory,
                   currentMetrics,
                   subprocessStats, persisted, inserted, ghost, env>>

\* metrics around the thresholds, and settings of the thresholds
AlertMetrics ==
    {[id |-> ID_A, cpuUsage |-> cpu, memoryUsage |-> memory, timestamp |-> 0] :
        cpu \in {0, 79, 80, 81}, memory \in {99, 100, 101}}

CpuThresholds == {CPU_ALERT_THRESHOLD, 90}

MemoryThresholds == {MEMORY_ALERT_THRESHOLD, 50}

\* one call of checkAlerts
CheckAlerts ==
    /\ \E metric \in AlertMetrics, cpuThreshold \in CpuThresholds,
          memoryThreshold \in MemoryThresholds :
          attr' = [ran |-> TRUE, op |-> "alerts", metric |-> metric,
                   cpuThreshold |-> cpuThreshold, memoryThreshold |-> memoryThreshold,
                   result |-> checkAlerts(metric, cpuThreshold, memoryThreshold)]
    /\ UNCHANGED <<matched, fired, steps, held, alerts, now, schedulerVars,
                   performanceHistory,
                   currentMetrics,
                   subprocessStats, persisted, inserted, ghost, env>>

\* ConfigManager.getConfig: the value of the setting, or defaultValue when
\* the setting has none
getConfig(configured, defaultValue) ==
    IF configured = None THEN defaultValue ELSE configured[1]

\* the delay startMonitoring hands to setInterval
intervalOf(configured) == getConfig(configured, MONITORING_INTERVAL)

\* values of the setting monitoringInterval: unset, at and inside the bounds
\* the README gives, and outside them
ConfiguredIntervals ==
    {None, Some(0), Some(500), Some(1000), Some(5000), Some(60000), Some(120000)}

\* startMonitoring reads the setting and arms its timer
ArmInterval ==
    /\ \E configured \in ConfiguredIntervals :
          attr' = [ran |-> TRUE, op |-> "interval", configured |-> configured,
                   result |-> intervalOf(configured)]
    /\ UNCHANGED <<matched, fired, steps, held, alerts, now, schedulerVars,
                   performanceHistory,
                   currentMetrics,
                   subprocessStats, persisted, inserted, ghost, env>>

\* a comparator that puts the smallest value first
compareDescending_Ascending(a, b, field) == a[field] - b[field]

\* the comparators (a, b) => b.cpuUsage - a.cpuUsage and
\* (a, b) => b.memoryUsage - a.memoryUsage
compareDescending(a, b, field) == b[field] - a[field]

\* sorted with x put in front of the first element the comparator places it
\* before, and at the end when there is none
insertSorted(sorted, x, field) ==
    LET after == {p \in 1..Len(sorted) : compareDescending(x, sorted[p], field) < 0}
        pos   == IF after = {} THEN Len(sorted) + 1
                 ELSE CHOOSE p \in after : \A q \in after : p <= q
    IN SubSeq(sorted, 1, pos - 1) \o <<x>> \o SubSeq(sorted, pos, Len(sorted))

RECURSIVE sortFrom(_, _, _, _)
\* Array.prototype.sort with the comparator of field, which is stable: the
\* elements of seq from position i are inserted into sorted, in order
sortFrom(seq, i, field, sorted) ==
    IF i > Len(seq) THEN sorted
    ELSE sortFrom(seq, i + 1, field, insertSorted(sorted, seq[i], field))

\* [...metrics].sort(comparator).slice(0, 5): the copy is sorted, metrics is
\* left as it is
topConsumers(metrics, field) ==
    LET sorted == sortFrom(metrics, 1, field, << >>)
    IN [top     |-> SubSeq(sorted, 1, IF Len(sorted) < 5 THEN Len(sorted) ELSE 5),
        metrics |-> metrics]

\* getPerformanceSummary on current metrics: the summary it returns, without
\* its timestamp, and the current metrics it leaves
getPerformanceSummary(metrics) ==
    LET activeExtensions == SelectSeq(metrics, LAMBDA m : m.isActive)
        cpu              == topConsumers(metrics, cpuOf)
        memory           == topConsumers(cpu.metrics, memoryOf)
    IN [summary |-> [totalExtensions    |-> Len(metrics),
                     activeExtensions   |-> Len(activeExtensions),
                     totalCpuUsage      |-> reduceSum(metrics, cpuOf),
                     totalMemoryUsage   |-> reduceSum(metrics, memoryOf),
                     topCpuConsumers    |-> cpu.top,
                     topMemoryConsumers |-> memory.top],
        currentMetrics |-> memory.metrics]

\* the ids of the metrics a summary is computed from
SUMMARY_IDS ==
    <<ID_A, ID_B, ID_AB, ID_W, ID_UNKNOWN, <<"p", "u", "b", ".", "f">>,
      <<"p", "u", "b", ".", "g">>, <<"p", "u", "b", ".", "h">>,
      <<"p", "u", "b", ".", "i">>>>

\* the largest number of current metrics a summary is computed from
MaxSummarized == 7

\* current metrics: n metrics whose cpu and memory values follow two
\* progressions that repeat values, every second one active
SummaryMetrics(n, a, b, c) ==
    [i \in 1..n |-> [id          |-> SUMMARY_IDS[i],
                     isActive    |-> i % 2 = c,
                     cpuUsage    |-> (i * a) % 7,
                     memoryUsage |-> (i * b + 3) % 5,
                     timestamp   |-> 0]]

SummaryInputs ==
    {SummaryMetrics(n, a, b, c) : n \in 0..MaxSummarized, a \in 1..4, b \in 0..3,
                                  c \in 0..1}

\* one call of getPerformanceSummary
Summarize ==
    /\ \E metrics \in SummaryInputs :
          attr' = [ran |-> TRUE, op |-> "summary", metrics |-> metrics,
                   result |-> getPerformanceSummary(metrics)]
    /\ UNCHANGED <<matched, fired, steps, held, alerts, now, schedulerVars,
                   performanceHistory,
                   currentMetrics,
                   subprocessStats, persisted, inserted, ghost, env>>

AttrNext == Match \/ Attribute \/ Walk \/ CheckAlerts \/ ArmInterval \/ Summarize

AttrSpec == AttrInit /\ [][AttrNext]_vars

(***************************************************************************)
(* Matcher specification: calls of findBestMatch between attribution passes*)
(***************************************************************************)
\* a matcher whose best outlives the call: the loop starts from the result of
\* the call before
matcherCall_HoistedBest(command, index) ==
    IF command = << >> THEN None
    ELSE findBestMatchLoop(normalizePath(command), index, 1,
                           IF attr.ran /\ attr.op = "match" THEN attr.result ELSE None)

\* one call of findBestMatch: haystack and best are locals of the call, and
\* the call reads nothing but its two arguments
matcherCall(command, index) == findBestMatch(command, index)

MatcherCommands == {CMD_A_SERVER, CMD_B_RUN, CMD_UNRELATED}

MatcherExtensionLists == {<<EXT_A, EXT_B>>, <<EXT_AB, EXT_A>>}

\* one call of findBestMatch; the first call is remembered
MatcherCall ==
    /\ \E command \in MatcherCommands, extensions \in MatcherExtensionLists :
          LET result == matcherCall(command, indexedExtensions(extensions))
              call   == [command |-> command, extensions |-> extensions,
                         result |-> result]
          IN /\ attr' = [ran |-> TRUE, op |-> "match", command |-> command,
                         extensions |-> extensions, result |-> result]
             /\ matched' = IF matched.first = None
                           THEN [first |-> Some(call), between |-> FALSE]
                           ELSE matched
    /\ UNCHANGED <<fired, steps, held, alerts, now, schedulerVars, performanceHistory,
                   currentMetrics, subprocessStats, persisted, inserted, ghost, env>>

MatcherNext == MatcherCall \/ Attribute

MatcherSpec == AttrInit /\ [][MatcherNext]_vars

(***************************************************************************)
(* Round specification: collectMetrics statement by statement.  A round    *)
(* runs without interruption from the return of its attribution to its     *)
(* await of the save; callbacks and other rounds run only while no round   *)
(* is inside that stretch.                                                 *)
(***************************************************************************)
\* the positions of a round inside its uninterrupted stretch
RunningPcs == {"loop", "alert", "publish", "store"}

\* a round is inside its uninterrupted stretch
Busy == \E r \in DOMAIN rounds : rounds[r].pc \in RunningPcs

\* the first position from i on of an extension that is not built in, or
\* Len(Extensions) + 1
nextMonitored(i) ==
    LET rest == {j \in i..Len(Extensions) : ~isBuiltin(Extensions[j])}
    IN IF rest = {} THEN Len(Extensions) + 1
       ELSE CHOOSE j \in rest : \A k \in rest : j <= k

\* an order in which the save is issued before the event is fired
pcAfter_SaveFirst(pc, more) ==
    CASE pc = "attr" -> IF more THEN "loop" ELSE "store"
      [] pc = "loop" -> "alert"
      [] pc = "alert" -> IF more THEN "loop" ELSE "store"
      [] pc = "store" -> "publish"
      [] pc = "publish" -> "save"

\* the statement collectMetrics goes on to; more: an extension that is not
\* built in is left in the loop
pcAfter(pc, more) ==
    CASE pc = "attr" -> IF more THEN "loop" ELSE "publish"
      [] pc = "loop" -> "alert"
      [] pc = "alert" -> IF more THEN "loop" ELSE "publish"
      [] pc = "publish" -> "store"
      [] pc = "store" -> "save"

\* one entry of steps
Step(round, kind, extensionId) ==
    [round |-> round.id, kind |-> kind, extensionId |-> extensionId]

\* a round with the locals of collectMetrics once the attribution returned
resumed(round, input) ==
    [id |-> round.id, kind |-> round.kind,
     pc |-> pcAfter("attr", nextMonitored(1) <= Len(Extensions)),
     timestamp |-> round.timestamp, failed |-> input.failure # "none",
     saved |-> ~input.saveFails, cleared |-> round.cleared, stopped |-> round.stopped,
     i |-> nextMonitored(1), metrics |-> << >>,
     stats |-> IF input.attribution.threw THEN EmptyMap ELSE input.attribution.stats,
     estimates |-> input.estimates]

\* the refresh command calls collectMetrics
RefreshCommand == ~Busy /\ ManualCollect

\* time passes while no callback runs
ClockAdvances ==
    /\ ~Busy
    /\ env.timeSteps < MaxTimeSteps
    /\ now' = now + MONITORING_INTERVAL
    /\ env' = [env EXCEPT !.timeSteps = @ + 1]
    /\ UNCHANGED <<matched, fired, steps, held, alerts, schedulerVars, performanceHistory,
                   currentMetrics, subprocessStats, persisted, inserted, ghost, attr>>

\* the entries of the round merged into the map of the rounds before it
statsAssigned_Merged(previous, stats) == stats @@ previous

\* this.subprocessStats = subprocessStats: the map of the round replaces the
\* map of the rounds before it
statsAssigned(previous, stats) == stats

\* collectSubprocessStats settles and collectMetrics assigns subprocessStats
AttributionReturns(r) ==
    /\ ~Busy
    /\ rounds[r].pc = "attr"
    /\ \E input \in RoundInputs :
          /\ rounds' = [rounds EXCEPT ![r] = resumed(rounds[r], input)]
          /\ subprocessStats' = statsAssigned(subprocessStats, rounds'[r].stats)
    /\ steps' = Append(steps, Step(rounds[r], "attribution", << >>))
    /\ UNCHANGED <<matched, fired, held, alerts, now, isMonitoringActive,
                   monitoringInterval, timers, performanceHistory, currentMetrics,
                   persisted, inserted, ghost, env, attr>>

\* the metric of the extension at position i is built, pushed and handed to
\* updateHistory
ComponentInserted(r) ==
    /\ rounds[r].pc = "loop"
    /\ LET extension == Extensions[rounds[r].i]
           metric    == metricOf(extension, rounds[r].stats,
                                 rounds[r].estimates[extension.id], rounds[r].timestamp)
       IN /\ performanceHistory' = updateHistory(performanceHistory, metric)
          /\ inserted' = logged(inserted, metric)
          /\ rounds' = [rounds EXCEPT ![r].metrics = Append(@, metric),
                                      ![r].pc = pcAfter("loop", TRUE)]
          /\ steps' = Append(steps, Step(rounds[r], "insert", extension.id))
    /\ UNCHANGED <<matched, fired, held, alerts, now, isMonitoringActive,
                   monitoringInterval, timers, currentMetrics, subprocessStats,
                   persisted, ghost, env, attr>>

\* checkAlerts on the metric just recorded
ComponentChecked(r) ==
    /\ rounds[r].pc = "alert"
    /\ LET metric == rounds[r].metrics[Len(rounds[r].metrics)]
           next   == nextMonitored(rounds[r].i + 1)
       IN /\ alerts' = showAlert(alerts, checkAlerts(metric, CPU_ALERT_THRESHOLD,
                                                     MEMORY_ALERT_THRESHOLD))
          /\ rounds' = [rounds EXCEPT ![r].i = next,
                                      ![r].pc = pcAfter("alert", next <= Len(Extensions))]
          /\ steps' = Append(steps, Step(rounds[r], "alert", metric.id))
    /\ UNCHANGED <<matched, fired, held, now, isMonitoringActive, monitoringInterval,
                   timers, performanceHistory, currentMetrics, subprocessStats,
                   persisted, inserted, ghost, env, attr>>

\* currentMetrics is replaced and onMetricsUpdated fired
MetricsPublished(r) ==
    /\ rounds[r].pc = "publish"
    /\ currentMetrics' = rounds[r].metrics
    /\ fired' = fired + 1
    /\ rounds' = [rounds EXCEPT ![r].pc = pcAfter("publish", FALSE)]
    /\ steps' = Append(steps, Step(rounds[r], "event", << >>))
    /\ UNCHANGED <<matched, held, alerts, now, isMonitoringActive, monitoringInterval,
                   timers, performanceHistory, subprocessStats, persisted, inserted,
                   ghost, env, attr>>

\* saveHistoricalData hands the history to globalState.update and awaits it
SaveIssued(r) ==
    /\ rounds[r].pc = "store"
    /\ persisted' = IF rounds[r].saved THEN Some(performanceHistory) ELSE persisted
    /\ rounds' = [rounds EXCEPT ![r].pc = pcAfter("store", FALSE)]
    /\ steps' = Append(steps, Step(rounds[r], "save", << >>))
    /\ UNCHANGED <<matched, fired, held, alerts, now, isMonitoringActive,
                   monitoringInterval, timers, performanceHistory, currentMetrics,
                   subprocessStats, inserted, ghost, env, attr>>

\* the save settles and collectMetrics returns its metrics
RoundReturns(r) ==
    /\ ~Busy
    /\ rounds[r].pc = "save"
    /\ rounds' = finished(r)
    /\ steps' = Append(steps, Step(rounds[r], "return", << >>))
    /\ UNCHANGED <<matched, fired, held, alerts, now, isMonitoringActive,
                   monitoringInterval, timers, performanceHistory, currentMetrics,
                   subprocessStats, persisted, inserted, ghost, env, attr>>

RoundNext ==
    \/ RefreshCommand
    \/ ClockAdvances
    \/ \E r \in DOMAIN rounds : AttributionReturns(r)
    \/ \E r \in DOMAIN rounds : ComponentInserted(r)
    \/ \E r \in DOMAIN rounds : ComponentChecked(r)
    \/ \E r \in DOMAIN rounds : MetricsPublished(r)
    \/ \E r \in DOMAIN rounds : SaveIssued(r)
    \/ \E r \in DOMAIN rounds : RoundReturns(r)

RoundSpec == Init /\ [][RoundNext]_vars

(***************************************************************************)
(* Isolation specification: rounds run one after the other, statement by   *)
(* statement, and a statement of the try block of the loop may throw       *)
(***************************************************************************)
\* the exceptions thrown in one behaviour
MaxThrows == 1

\* the kinds of the steps that end in the catch block of the loop
CaughtKinds == {"caughtBuild", "caughtRecord", "caughtAlert"}

ThrowsLogged == Cardinality({p \in 1..Len(steps) : steps[p].kind \in CaughtKinds})

\* a catch that leaves the loop
afterCatch_LeavesLoop(i) == Len(Extensions) + 1

\* the catch block logs and the for loop goes on with the next extension
afterCatch(i) == nextMonitored(i + 1)

\* a round whose catch block has handled the exception of extension i
caught(round) ==
    [round EXCEPT !.i = afterCatch(round.i),
                  !.pc = pcAfter("alert", afterCatch(round.i) <= Len(Extensions))]

\* a statement of the try block throws for the extension at position i:
\* while the metric is built (the estimates, the packageJSON getter), in
\* updateHistory before it changes the record (a record loaded without its
\* metrics array), or in checkAlerts before an alert is shown (the
\* configuration read)
ComponentThrows(r) ==
    /\ ThrowsLogged < MaxThrows
    /\ \/ /\ rounds[r].pc = "loop"
          /\ rounds' = [rounds EXCEPT ![r] = caught(rounds[r])]
          /\ steps' = Append(steps, Step(rounds[r], "caughtBuild",
                                         Extensions[rounds[r].i].id))
       \/ /\ rounds[r].pc = "loop"
          /\ LET extension == Extensions[rounds[r].i]
                 metric    == metricOf(extension, rounds[r].stats,
                                       rounds[r].estimates[extension.id],
                                       rounds[r].timestamp)
             IN rounds' = [rounds EXCEPT
                              ![r] = caught([rounds[r] EXCEPT !.metrics = Append(@, metric)])]
          /\ steps' = Append(steps, Step(rounds[r], "caughtRecord",
                                         Extensions[rounds[r].i].id))
       \/ /\ rounds[r].pc = "alert"
          /\ rounds' = [rounds EXCEPT ![r] = caught(rounds[r])]
          /\ steps' = Append(steps, Step(rounds[r], "caughtAlert",
                                         Extensions[rounds[r].i].id))
    /\ UNCHANGED <<matched, fired, held, alerts, now, isMonitoringActive,
                   monitoringInterval, timers, performanceHistory, currentMetrics,
                   subprocessStats, persisted, inserted, ghost, env, attr>>

\* the refresh command while no round is in flight
RefreshWhenIdle == rounds = << >> /\ ManualCollect

IsolationNext ==
    \/ RefreshWhenIdle
    \/ \E r \in DOMAIN rounds : AttributionReturns(r)
    \/ \E r \in DOMAIN rounds : ComponentInserted(r)
    \/ \E r \in DOMAIN rounds : ComponentChecked(r)
    \/ \E r \in DOMAIN rounds : ComponentThrows(r)
    \/ \E r \in DOMAIN rounds : MetricsPublished(r)
    \/ \E r \in DOMAIN rounds : SaveIssued(r)
    \/ \E r \in DOMAIN rounds : RoundReturns(r)

IsolationSpec == Init /\ [][IsolationNext]_vars

(***************************************************************************)
(* Properties of the history records                                       *)
(***************************************************************************)
Min(a, b) == IF a < b THEN a ELSE b

\* v is the largest value of field over the elements of seq
IsMaximumOf(v, seq, field) ==
    /\ \E i \in 1..Len(seq) : seq[i][field] = v
    /\ \A i \in 1..Len(seq) : seq[i][field] <= v

RECURSIVE TailTotal(_, _, _)
\* the total of field over the last k elements of seq
TailTotal(seq, field, k) ==
    IF k = 0 THEN 0
    ELSE seq[Len(seq) - k + 1][field] + TailTotal(seq, field, k - 1)

\* fraction q is the mean of the last k elements of seq
IsMeanOfLast(q, seq, k, field) ==
    /\ q.den > 0
    /\ q.num * k = TailTotal(seq, field, k) * q.den

\* C4: while neither a clear nor a cleanup has happened, after N inserts into
\* the initially empty record of one component the record holds min(N, 1000)
\* points, and they are the min(N, 1000) most recently inserted ones in
\* insertion order.
HistorySizeCap ==
    (env.stream # 0 /\ env.n > 0 /\ env.cleanups = 0 /\ env.clears = 0) =>
        /\ ID_A \in DOMAIN performanceHistory
        /\ LET points == performanceHistory[ID_A].metrics
               all    == inserted[ID_A]
               N      == env.n
               kept   == Min(N, 1000)
           IN /\ Len(all) = N
              /\ Len(points) = kept
              /\ \A i \in 1..kept : points[i] = all[N - kept + i]

\* 1500 inserts leave points 501..1500
HistorySizeCapWitness ==
    /\ env.n = 1500 /\ env.cleanups = 0 /\ env.clears = 0
    /\ ID_A \in DOMAIN performanceHistory
    /\ Len(performanceHistory[ID_A].metrics) = 1000
    /\ performanceHistory[ID_A].metrics[1] = inserted[ID_A][501]
    /\ performanceHistory[ID_A].metrics[1000] = inserted[ID_A][1500]

\* C5: immediately after a record operation the rolling averages of cpu and
\* memory are the arithmetic means over the last min(len(points), 100) points
\* of the record.
RollingAverageAfterRecord ==
    ghost.last = "record" =>
        \A id \in DOMAIN performanceHistory :
            LET h == performanceHistory[id]
                k == Min(Len(h.metrics), 100)
            IN /\ k > 0
               /\ IsMeanOfLast(h.averages.cpu, h.metrics, k, cpuOf)
               /\ IsMeanOfLast(h.averages.memory, h.metrics, k, memoryOf)

\* a record on a full series whose overall mean differs from the mean of
\* its last 100 points
RollingAverageWitness ==
    /\ ghost.last = "record" /\ env.stream = 1
    /\ ID_A \in DOMAIN performanceHistory
    /\ Len(performanceHistory[ID_A].metrics) = 1000
    /\ performanceHistory[ID_A].averages.cpu.den = 100

PeakIsMaximum ==
    \A id \in DOMAIN performanceHistory :
        /\ id \in DOMAIN inserted
        /\ inserted[id] # << >>
        /\ LET all == inserted[id]
               h   == performanceHistory[id]
           IN /\ IsMaximumOf(h.peaks.cpu.value, all, cpuOf)
              /\ IsMaximumOf(h.peaks.memory.value, all, memoryOf)

PeakKeptByLowerInsert ==
    \A id \in DOMAIN performanceHistory \cap DOMAIN performanceHistory' :
        (/\ id \in DOMAIN inserted /\ id \in DOMAIN inserted'
         /\ Len(inserted'[id]) = Len(inserted[id]) + 1) =>
            LET point == inserted'[id][Len(inserted'[id])]
                old   == performanceHistory[id].peaks
                new   == performanceHistory'[id].peaks
            IN /\ point.cpuUsage < old.cpu.value => new.cpu = old.cpu
               /\ point.memoryUsage < old.memory.value => new.memory = old.memory

\* C6: the peak values of a record are the maxima of cpu and of memory over
\* all points inserted since the last clear, whatever the size cap and the
\* cleanup have evicted, and an insert of a lower value leaves the peak as
\* it was.
PeakMonotone == [](PeakIsMaximum) /\ [][PeakKeptByLowerInsert]_vars

\* the first point set the cpu peak, lower values were inserted after it, the
\* size cap evicted it and a cleanup evicted every other point
PeakMonotoneWitness ==
    /\ env.cleanups = 1 /\ ID_A \in DOMAIN performanceHistory
    /\ Len(inserted[ID_A]) > 1000
    /\ performanceHistory[ID_A].metrics = << >>
    /\ performanceHistory[ID_A].peaks.cpu.value = inserted[ID_A][1].cpuUsage

(***************************************************************************)
(* Properties of the scheduler                                             *)
(***************************************************************************)
\* C1: at most one execution of collectMetrics is in flight at any time.
OneRoundInFlight == Len(rounds) <= 1

\* a step of a startMonitoring call that returned at its guard
EarlyReturnStep == ghost' # ghost /\ ghost'.lastCall = "early"

\* C2: a startMonitoring call made while monitoring is active changes nothing,
\* and as long as stopMonitoring was never called the start calls together
\* have executed at most one immediate round and armed at most one timer.
StartWhileRunningIsNoOp ==
    /\ [](~ghost.everStopped => (ghost.immediateRounds <= 1 /\ Cardinality(timers) <= 1))
    /\ [][EarlyReturnStep =>
            /\ isMonitoringActive
            /\ UNCHANGED <<now, isMonitoringActive, monitoringInterval, timers, rounds,
                           performanceHistory, currentMetrics, subprocessStats,
                           persisted, inserted, env>>]_vars

\* start was called twice in a row; one immediate round ran and one timer is armed
StartWhileRunningWitness ==
    /\ ghost.lastCall = "early" /\ ~ghost.everStopped
    /\ ghost.immediateRounds = 1
    /\ rounds = << >>
    /\ Cardinality(timers) = 1 /\ monitoringInterval \in timers

\* a step in which the callback of a periodic timer starts a round
TickStartsRound ==
    /\ Len(rounds') = Len(rounds) + 1
    /\ rounds'[Len(rounds')].kind = "tick"

\* a step of a stopMonitoring call made after stopMonitoring had returned and
\* before any startMonitoring call: no other step taken then leaves the rounds,
\* the history, the clock and the budget as they are
StopWhenStopped ==
    /\ ghost.lastCall = "stop" /\ ghost'.lastCall = "stop"
    /\ UNCHANGED <<now, rounds, performanceHistory, persisted, inserted, env>>

\* C3: once stopMonitoring has returned, and until startMonitoring is called
\* again, isMonitoring() is false and no periodic tick starts a round; a
\* stopMonitoring call on a stopped monitor changes nothing.
StopHaltsTicks ==
    /\ [](ghost.lastCall = "stop" => ~isMonitoringActive)
    /\ [][ghost.lastCall = "stop" => ~TickStartsRound]_vars
    /\ [][StopWhenStopped =>
            UNCHANGED <<isMonitoringActive, monitoringInterval, timers>>]_vars

(***************************************************************************)
(* Properties of the age-based cleanup                                     *)
(***************************************************************************)
\* a step of cleanupOldData
CleanupStep == env'.cleanups = env.cleanups + 1

\* C7: a cleanup at time now with retention d leaves in every record exactly
\* the points whose timestamp is not below the cutoff now - d*86400000, a
\* point at the cutoff included, in their original order, and leaves the
\* peak as it was.
RetentionEviction ==
    [][CleanupStep =>
        LET cutoff == now - env'.retentionDays * 86400000
        IN /\ DOMAIN performanceHistory' = DOMAIN performanceHistory
           /\ \A id \in DOMAIN performanceHistory :
                /\ performanceHistory'[id].metrics =
                      SelectSeq(performanceHistory[id].metrics,
                                LAMBDA m : m.timestamp >= cutoff)
                /\ performanceHistory'[id].peaks = performanceHistory[id].peaks]_vars

\* C8: in every state the rolling average of a record is the arithmetic mean
\* of its min(len(points), 100) most recent points, and zero when it holds no
\* point.
RollingAverageAlways ==
    \A id \in DOMAIN performanceHistory :
        LET h == performanceHistory[id]
            k == Min(Len(h.metrics), 100)
        IN IF k = 0
           THEN h.averages.cpu.num = 0 /\ h.averages.memory.num = 0
           ELSE /\ IsMeanOfLast(h.averages.cpu, h.metrics, k, cpuOf)
                /\ IsMeanOfLast(h.averages.memory, h.metrics, k, memoryOf)

(***************************************************************************)
(* Properties of the matcher and of the attribution pass                   *)
(***************************************************************************)
LowerCased(value) == [i \in 1..Len(value) |-> toLowerCase(value[i])]

\* the positions of the candidates whose normalized install path or
\* lower-cased id occurs in the normalized command
Hits(command, extensions) ==
    {i \in 1..Len(extensions) :
        \/ includes(normalizePath(command), normalizePath(extensions[i].extensionPath))
        \/ includes(normalizePath(command), LowerCased(extensions[i].id))}

ResultId(result) == IF result = None THEN None ELSE Some(result[1].id)

\* C9: over candidates with non-empty ids and install paths, findBestMatch
\* returns a candidate whose normalized install path or lower-cased id occurs
\* in the normalized command and whose normalized path is longest among such
\* candidates; it returns none when the command is empty or no candidate
\* qualifies.  With A at /ext/a and B at /ext/b, /ext/a/bin/server goes to A,
\* /ext/b/run to B and /unrelated/x to nobody.
MatcherRule ==
    (attr.ran /\ attr.op = "match") =>
        LET hits == Hits(attr.command, attr.extensions)
        IN /\ attr.command = << >> => attr.result = None
           /\ hits = {} => attr.result = None
           /\ hits # {} =>
                /\ attr.result # None
                /\ \E i \in hits :
                      /\ attr.result[1].id = attr.extensions[i].id
                      /\ \A j \in hits : Len(normalizePath(attr.extensions[j].extensionPath))
                                           <= Len(attr.result[1].path)
           /\ attr.extensions = <<EXT_A, EXT_B>> =>
                /\ attr.command = CMD_A_SERVER => ResultId(attr.result) = Some(ID_A)
                /\ attr.command = CMD_B_RUN => ResultId(attr.result) = Some(ID_B)
                /\ attr.command = CMD_UNRELATED => attr.result = None

\* two candidates contain the command's path; the one listed first has the
\* shorter path and the other one is returned
MatcherRuleWitness ==
    /\ attr.ran /\ attr.op = "match"
    /\ attr.command = CMD_A_SERVER
    /\ attr.extensions = <<EXT_AB, EXT_A>>
    /\ Hits(attr.command, attr.extensions) = {1, 2}
    /\ ResultId(attr.result) = Some(ID_AB)

\* the distinct processes the walk of an attribution pass found
WalkedProcesses ==
    LET children == getAllDescendants(attr.listing, attr.options.rootPid).allChildren
    IN {children[i] : i \in 1..Len(children)}

\* the sampled processes an attribution pass assigns to component id
Assigned(id) ==
    {child \in WalkedProcesses :
        /\ isFinite(child.PID)
        /\ child.PID \in DOMAIN attr.sampling.stats
        /\ ResultId(matchOf(child, indexedExtensions(attr.extensions), attr.options))
             = Some(id)}

RECURSIVE SumOver(_, _)
\* the sum of the function value over the set S
SumOver(value, S) ==
    IF S = {} THEN 0
    ELSE LET x == CHOOSE y \in S : TRUE IN value[x] + SumOver(value, S \ {x})

CpuReading(child) ==
    LET usage == attr.sampling.stats[child.PID]
    IN IF usage.cpu = None THEN 0 ELSE usage.cpu[1]

MegabytesReading(child) == attr.sampling.stats[child.PID].memory \div BYTES_PER_MB

\* C10: after a successful attribution pass the entry of every component in
\* the result has totalCpu and totalMemory equal to the sums of the cpu
\* readings and of the memory readings (in megabytes) of exactly the sampled
\* processes assigned to it, and processCount equal to their number; a
\* process assigned to no component adds to no total.
AttributionTotals ==
    (attr.ran /\ attr.op = "attribute" /\ ~attr.result.threw /\ ~attr.sampling.error) =>
        LET stats == attr.result.stats
            ids   == {attr.extensions[i].id : i \in 1..Len(attr.extensions)}
        IN /\ DOMAIN stats = {id \in ids : Assigned(id) # {}}
           /\ \A id \in DOMAIN stats :
                /\ stats[id].totalCpu = SumOver([child \in Assigned(id) |-> CpuReading(child)], Assigned(id))
                /\ stats[id].totalMemory =
                      SumOver([child \in Assigned(id) |-> MegabytesReading(child)],
                              Assigned(id))
                /\ stats[id].processCount = Cardinality(Assigned(id))

\* the ids of the components supplied to an attribution pass
SuppliedIds == {attr.extensions[i].id : i \in 1..Len(attr.extensions)}

\* an attribution pass whose listing and sampling both succeeded
AttributionSucceeded ==
    attr.ran /\ attr.op = "attribute" /\ ~attr.result.threw /\ ~attr.sampling.error

\* the components whose entry in the result lists a process with this pid
OwnersOf(pid) ==
    {id \in DOMAIN attr.result.stats :
        \E i \in 1..Len(attr.result.stats[id].processes) :
            attr.result.stats[id].processes[i].pid = pid}

\* C11: a sampled process whose pid has an entry in the override map naming
\* a supplied component is attributed to that component and to no other,
\* whatever findBestMatch returns for its command.
OverridePrecedence ==
    AttributionSucceeded =>
        \A child \in WalkedProcesses :
            (/\ child.PID \in DOMAIN attr.options.pidToExtensionId
             /\ child.PID \in DOMAIN attr.sampling.stats
             /\ attr.options.pidToExtensionId[child.PID] \in SuppliedIds)
            => OwnersOf(child.PID) = {attr.options.pidToExtensionId[child.PID]}

\* pid 2 runs the server of A and the override map gives it to B
OverridePrecedenceWitness ==
    /\ AttributionSucceeded
    /\ P_A_SERVER \in WalkedProcesses
    /\ 2 \in DOMAIN attr.sampling.stats
    /\ attr.options.pidToExtensionId = (2 :> ID_B)
    /\ ResultId(findBestMatch(resolveCommand(P_A_SERVER),
                              indexedExtensions(attr.extensions))) = Some(ID_A)
    /\ OwnersOf(2) = {ID_B}

\* pidusage was called in an attribution pass and failed
SamplingFailed ==
    /\ attr.ran /\ attr.op = "attribute"
    /\ attr.sampling.error
    /\ ~getAllDescendants(attr.listing, attr.options.rootPid).rejected
    /\ \E child \in WalkedProcesses : isFinite(child.PID) /\ child.PID > 0

\* C12: when the sampling of the whole batch fails, the attribution pass
\* returns a mapping in which every supplied component is present with
\* processCount = 0 and totalCpu = 0.
SamplingFailureZeroes ==
    SamplingFailed =>
        /\ ~attr.result.threw
        /\ \A id \in SuppliedIds :
              /\ id \in DOMAIN attr.result.stats
              /\ attr.result.stats[id].processCount = 0
              /\ attr.result.stats[id].totalCpu = 0

(***************************************************************************)
(* Properties of the process tree walk                                     *)
(***************************************************************************)
\* C13: the sequence getAllDescendants resolves with holds each pid at most
\* once, whatever the listings report: a pid reported twice by one listing,
\* or under the root and again under an intermediate ancestor.
WalkYieldsEachPidOnce ==
    (attr.ran /\ attr.op = "walk" /\ ~attr.result.rejected) =>
        \A i, j \in 1..Len(attr.result.allChildren) :
            i # j => attr.result.allChildren[i].PID # attr.result.allChildren[j].PID

\* the listing of a descendant failed in a walk that had collected processes
ListingFailedInWalk ==
    /\ attr.ran /\ attr.op = "walk"
    /\ attr.result.allChildren # << >>
    /\ \E pid \in attr.result.visited \ {attr.rootPid} :
          getProcessTree(attr.listing, pid).error

\* C14: when the listing of some pid fails in the middle of a walk,
\* getAllDescendants still resolves, with the processes collected before the
\* failure, instead of failing the whole call.
WalkToleratesListingFailure ==
    ListingFailedInWalk => ~attr.result.rejected

\* the round with the given id is in flight after the step
StillInFlight(id) == \E q \in DOMAIN rounds' : rounds'[q].id = id

\* the step is the part of round r from the return of the attribution to the
\* await of the save, and the listing or the sampling failed in it
FailingRoundAttributed(r) ==
    /\ rounds[r].pc = "attr"
    /\ \E q \in DOMAIN rounds' :
          /\ rounds'[q].id = rounds[r].id
          /\ rounds'[q].pc = "save"
          /\ rounds'[q].failed

\* every extension that is not built in has exactly one metric with the
\* timestamp in the metrics, and that metric is the last point of its history
RecordedForAll(metrics, history, timestamp) ==
    /\ Len(metrics) = Cardinality(MonitoredIds)
    /\ \A id \in MonitoredIds :
          /\ \E i \in 1..Len(metrics) :
                /\ metrics[i].id = id
                /\ metrics[i].timestamp = timestamp
                /\ id \in DOMAIN history
                /\ history[id].metrics[Len(history[id].metrics)] = metrics[i]

\* C15: a failure of the process listing or of the sampling never leaves
\* collectMetrics: a round that awaits its attribution stays in flight until it
\* has recorded; when the listing or the sampling failed, the round still
\* records one metric for every extension that is not built in, and leaves the
\* interval timer and the monitoring flag as they were; a startMonitoring call
\* whose first round failed still arms its timer
RoundFailureContained ==
    [][\A r \in DOMAIN rounds :
          /\ rounds[r].pc = "attr" => StillInFlight(rounds[r].id)
          /\ FailingRoundAttributed(r)
                => /\ RecordedForAll(currentMetrics', performanceHistory',
                                     rounds[r].timestamp)
                   /\ timers' = timers
                   /\ isMonitoringActive' = isMonitoringActive
          /\ (/\ rounds[r].pc = "save"
              /\ rounds[r].failed
              /\ rounds[r].kind = "start"
              /\ ~StillInFlight(rounds[r].id))
                => rounds[r].id \in timers']_vars

\* a round begun by the interval timer has recorded after its listing or its
\* sampling failed, and the timer is still armed
RoundFailureWitness ==
    \E r \in DOMAIN rounds :
        /\ rounds[r].kind = "tick"
        /\ rounds[r].pc = "save"
        /\ rounds[r].failed
        /\ RecordedForAll(currentMetrics, performanceHistory, rounds[r].timestamp)
        /\ subprocessStats = EmptyMap
        /\ timers # {}

\* the alerts of the given type in the result of the checkAlerts call
AlertsOfType(type) == SelectSeq(attr.result, LAMBDA a : a.type = type)

\* C16: checkAlerts emits a cpu alert exactly when cpuUsage is above the cpu
\* threshold and a memory alert exactly when memoryUsage is above the memory
\* threshold, each at most once and each carrying the value and the threshold
\* of the point; a value equal to its threshold emits nothing
AlertEvaluation ==
    (attr.ran /\ attr.op = "alerts") =>
        /\ AlertsOfType("cpu") =
              IF attr.metric.cpuUsage > attr.cpuThreshold
              THEN <<[type |-> "cpu", extensionId |-> attr.metric.id,
                      value |-> attr.metric.cpuUsage, threshold |-> attr.cpuThreshold,
                      timestamp |-> attr.metric.timestamp]>>
              ELSE << >>
        /\ AlertsOfType("memory") =
              IF attr.metric.memoryUsage > attr.memoryThreshold
              THEN <<[type |-> "memory", extensionId |-> attr.metric.id,
                      value |-> attr.metric.memoryUsage,
                      threshold |-> attr.memoryThreshold,
                      timestamp |-> attr.metric.timestamp]>>
              ELSE << >>
        /\ Len(attr.result) = Len(AlertsOfType("cpu")) + Len(AlertsOfType("memory"))

\* cpu 81 against the threshold 80 and memory at its threshold: one cpu
\* alert and nothing else
AlertEvaluationWitness ==
    /\ attr.ran /\ attr.op = "alerts"
    /\ attr.metric.cpuUsage = 81 /\ attr.cpuThreshold = 80
    /\ attr.metric.memoryUsage = attr.memoryThreshold
    /\ Len(attr.result) = 1
    /\ attr.result[1].type = "cpu"

\* the step is the part of a round from the return of the attribution to the
\* await of the save
RoundRecorded ==
    \E r \in DOMAIN rounds :
        /\ rounds[r].pc = "attr"
        /\ \E q \in DOMAIN rounds' : rounds'[q].id = rounds[r].id /\ rounds'[q].pc = "save"

\* the alerts a step has added to the alerts shown
NewAlerts == SubSeq(alerts', Len(alerts) + 1, Len(alerts'))

\* the alert with the given fields is among the alerts the step has added
Raised(type, metric, value, threshold) ==
    \E i \in 1..Len(NewAlerts) :
        NewAlerts[i] = [type |-> type, extensionId |-> metric.id, value |-> value,
                        threshold |-> threshold, timestamp |-> metric.timestamp]

\* the points among the metrics that are above the cpu threshold, and above
\* the memory threshold
AboveCpu(metrics) ==
    {i \in 1..Len(metrics) : metrics[i].cpuUsage > CPU_ALERT_THRESHOLD}

AboveMemory(metrics) ==
    {i \in 1..Len(metrics) : metrics[i].memoryUsage > MEMORY_ALERT_THRESHOLD}

\* C17: the alerts a round shows are determined by the points of that round
\* alone: whatever was shown in earlier rounds stays, and the round adds one
\* cpu alert for each of its points above the cpu threshold, one memory alert
\* for each of its points above the memory threshold, and nothing else
AlertingStateless ==
    [][RoundRecorded =>
          /\ Len(alerts') >= Len(alerts)
          /\ SubSeq(alerts', 1, Len(alerts)) = alerts
          /\ \A i \in AboveCpu(currentMetrics') :
                Raised("cpu", currentMetrics'[i], currentMetrics'[i].cpuUsage,
                       CPU_ALERT_THRESHOLD)
          /\ \A i \in AboveMemory(currentMetrics') :
                Raised("memory", currentMetrics'[i], currentMetrics'[i].memoryUsage,
                       MEMORY_ALERT_THRESHOLD)
          /\ Len(NewAlerts) = Cardinality(AboveCpu(currentMetrics'))
                                + Cardinality(AboveMemory(currentMetrics'))]_vars

\* extension A was above the cpu threshold in two rounds, a period apart, and
\* a cpu alert was shown for it in both
AlertingStatelessWitness ==
    /\ ID_A \in DOMAIN performanceHistory
    /\ Len(performanceHistory[ID_A].metrics) = 2
    /\ \A i \in 1..2 : performanceHistory[ID_A].metrics[i].cpuUsage > CPU_ALERT_THRESHOLD
    /\ performanceHistory[ID_A].metrics[2].timestamp
          = performanceHistory[ID_A].metrics[1].timestamp + MONITORING_INTERVAL
    /\ \A i \in 1..2 :
          \E k \in 1..Len(alerts) :
              /\ alerts[k].type = "cpu"
              /\ alerts[k].extensionId = ID_A
              /\ alerts[k].timestamp = performanceHistory[ID_A].metrics[i].timestamp

\* C18: the record a caller received from getExtensionHistory keeps the
\* points, the averages and the peaks it had when the call returned, whatever
\* is recorded, cleaned up or cleared afterwards
SnapshotImmutable ==
    held # None => held[1].object = held[1].returned

\* every point of the records is one of the points logged for its extension
PointsAmong(records, log) ==
    \A id \in DOMAIN records :
        /\ id \in DOMAIN log
        /\ \A i \in 1..Len(records[id].metrics) :
              \E k \in 1..Len(log[id]) : records[id].metrics[i] = log[id][k]

\* C19: performanceHistory and the persisted copy hold nothing that was
\* recorded before the last clearHistory call: the extensions with a record
\* are those recorded since, every point kept in memory or persisted is one
\* recorded since, a record has no more points than were recorded since (one
\* at most after the first insert), and the peaks of a record are the largest
\* values recorded since; this holds whatever rounds were in flight when
\* clearHistory was called
ClearForgetsEverything ==
    /\ DOMAIN performanceHistory = DOMAIN inserted
    /\ PointsAmong(performanceHistory, inserted)
    /\ persisted # None => PointsAmong(persisted[1], inserted)
    /\ \A id \in DOMAIN performanceHistory :
          /\ IsMaximumOf(performanceHistory[id].peaks.cpu.value, inserted[id], "cpuUsage")
          /\ IsMaximumOf(performanceHistory[id].peaks.memory.value, inserted[id],
                         "memoryUsage")
          /\ Len(performanceHistory[id].metrics) <= Len(inserted[id])

\* extension A was above the cpu threshold in two rounds; clearHistory was
\* called after the first had recorded and while the second was in flight;
\* the second has recorded, and the record of A and its persisted copy hold
\* the point of the second round alone
ClearForgetsWitness ==
    /\ \E r \in DOMAIN rounds : rounds[r].pc = "save" /\ rounds[r].cleared
    /\ Len(SelectSeq(alerts, LAMBDA a : a.type = "cpu" /\ a.extensionId = ID_A)) = 2
    /\ ID_A \in DOMAIN performanceHistory
    /\ Len(performanceHistory[ID_A].metrics) = 1
    /\ performanceHistory[ID_A].peaks.cpu.value = performanceHistory[ID_A].metrics[1].cpuUsage
    /\ persisted # None
    /\ persisted[1][ID_A].metrics = performanceHistory[ID_A].metrics

\* the step is the part of round r from the return of the attribution to the
\* await of the save, and globalState.update fails in it
SaveFailedIn(r) ==
    /\ rounds[r].pc = "attr"
    /\ \E q \in DOMAIN rounds' :
          /\ rounds'[q].id = rounds[r].id
          /\ rounds'[q].pc = "save"
          /\ ~rounds'[q].saved

\* the step is the return of collectMetrics in round r, whose save had failed
ReturnsAfterFailedSave(r) ==
    /\ rounds[r].pc = "save"
    /\ ~rounds[r].saved
    /\ ~StillInFlight(rounds[r].id)

\* C20: a round whose save fails has recorded one metric for every extension
\* that is not built in, in currentMetrics and in performanceHistory, and has
\* left the persisted copy, the interval timers and the monitoring flag as
\* they were; when it returns, currentMetrics and performanceHistory are as it
\* left them, no timer is disarmed, and a startMonitoring call that awaited it
\* arms its timer
SaveFailureContained ==
    [][\A r \in DOMAIN rounds :
          /\ SaveFailedIn(r)
                => /\ RecordedForAll(currentMetrics', performanceHistory',
                                     rounds[r].timestamp)
                   /\ persisted' = persisted
                   /\ timers' = timers
                   /\ isMonitoringActive' = isMonitoringActive
          /\ ReturnsAfterFailedSave(r)
                => /\ currentMetrics' = currentMetrics
                   /\ performanceHistory' = performanceHistory
                   /\ timers \subseteq timers'
                   /\ rounds[r].kind = "start" => rounds[r].id \in timers']_vars

\* the first round of startMonitoring recorded and could not save; its timer
\* was armed and has started the next round
SaveFailureWitness ==
    /\ \E r \in DOMAIN rounds : rounds[r].kind = "tick" /\ rounds[r].pc = "attr"
    /\ persisted = None
    /\ RecordedForAll(currentMetrics, performanceHistory, 0)
    /\ Len(alerts) > 0
    /\ timers # {}

(***************************************************************************)
(* Properties of the configuration                                         *)
(***************************************************************************)
\* C21: whatever the setting monitoringInterval holds, the delay with which
\* startMonitoring arms its timer lies between 1000 and 60000 ms.
IntervalWithinBounds ==
    (attr.ran /\ attr.op = "interval") => (attr.result >= 1000 /\ attr.result <= 60000)

(***************************************************************************)
(* Properties of the rounds                                                *)
(***************************************************************************)
\* a step of a startMonitoring call that passed its guard
StartStep == ghost'.immediateRounds = ghost.immediateRounds + 1

\* the step is the return of collectMetrics in round r to the
\* startMonitoring call that awaited it
StartRoundReturns(r) ==
    /\ rounds[r].kind = "start"
    /\ rounds[r].pc = "save"
    /\ ~StillInFlight(rounds[r].id)

\* C22: a startMonitoring call on a stopped monitor begins exactly one round
\* and arms no timer yet; a timer is armed only when that round returns, one
\* timer per call, and the monitor is then running; every tick of a timer
\* begins exactly one round.
StartRunsOneRoundThenArms ==
    /\ [][StartStep =>
            /\ ~isMonitoringActive
            /\ Len(rounds') = Len(rounds) + 1
            /\ rounds'[Len(rounds')].kind = "start"
            /\ SubSeq(rounds', 1, Len(rounds)) = rounds
            /\ timers' = timers]_vars
    /\ [][timers' # timers /\ timers \subseteq timers' =>
            \E r \in DOMAIN rounds :
                /\ StartRoundReturns(r)
                /\ timers' = timers \cup {rounds[r].id}]_vars
    /\ [][\A r \in DOMAIN rounds :
            StartRoundReturns(r) =>
                /\ rounds[r].id \in timers'
                /\ isMonitoringActive']_vars
    /\ [][now' = now + MONITORING_INTERVAL =>
            /\ Len(rounds') = Len(rounds) + 1
            /\ rounds'[Len(rounds')].kind = "tick"
            /\ SubSeq(rounds', 1, Len(rounds)) = rounds]_vars

\* a step of a stopMonitoring call on a monitor whose latest call was not one
StopCallStep == ghost' # ghost /\ ghost'.lastCall = "stop"

\* the step is the part of round r from the return of the attribution to the
\* await of the save, taken after the round has met a stopMonitoring call
RecordsAfterStop(r) ==
    /\ rounds[r].pc = "attr"
    /\ rounds[r].stopped
    /\ \E q \in DOMAIN rounds' : rounds'[q].id = rounds[r].id /\ rounds'[q].pc = "save"

\* C23: stopMonitoring leaves every round in flight, the history, the current
\* metrics and the persisted copy as they are; a round that has met a
\* stopMonitoring call stays in flight until it has recorded, and then it
\* records one metric for every extension that is not built in, replaces the
\* current metrics, fires onMetricsUpdated once and, unless the save fails,
\* persists the history it has written.
InFlightRoundDrains ==
    /\ [][StopCallStep =>
            /\ DOMAIN rounds' = DOMAIN rounds
            /\ \A r \in DOMAIN rounds : rounds'[r] = [rounds[r] EXCEPT !.stopped = TRUE]
            /\ UNCHANGED <<performanceHistory, currentMetrics, persisted, fired,
                           alerts>>]_vars
    /\ [][\A r \in DOMAIN rounds :
            /\ (rounds[r].stopped /\ rounds[r].pc = "attr")
                  => StillInFlight(rounds[r].id)
            /\ RecordsAfterStop(r)
                  => /\ RecordedForAll(currentMetrics', performanceHistory',
                                       rounds[r].timestamp)
                     /\ fired' = fired + 1
                     /\ \A q \in DOMAIN rounds' :
                           (rounds'[q].id = rounds[r].id /\ rounds'[q].saved)
                              => persisted' = Some(performanceHistory')]_vars

\* the first round of startMonitoring met a stopMonitoring call in flight and
\* has recorded, fired and saved; nothing else has run
InFlightRoundDrainsWitness ==
    /\ ~isMonitoringActive
    /\ ghost.lastCall = "stop"
    /\ Len(rounds) = 1
    /\ rounds[1].kind = "start" /\ rounds[1].stopped
    /\ rounds[1].pc = "save" /\ rounds[1].saved
    /\ RecordedForAll(currentMetrics, performanceHistory, rounds[1].timestamp)
    /\ fired = 1
    /\ persisted = Some(performanceHistory)

\* the walked processes of an attribution pass the sampler has no reading for
Unsampled ==
    {child \in WalkedProcesses :
        isFinite(child.PID) /\ child.PID \notin DOMAIN attr.sampling.stats}

\* an attribution pass whose walk found a process the sampler, which did not
\* fail, has no reading for
AttributedWithUnsampled ==
    /\ attr.ran /\ attr.op = "attribute"
    /\ ~getAllDescendants(attr.listing, attr.options.rootPid).rejected
    /\ ~attr.sampling.error
    /\ Unsampled # {}

\* C24: when the walk of an attribution pass found a process the sampler
\* reported nothing for, the pass does not reject, no component's entry lists
\* that process, and every walked process that has a reading and a match is
\* listed by the component it matches, with its reading.
UnsampledPidExcluded ==
    AttributedWithUnsampled =>
        /\ ~attr.result.threw
        /\ \A child \in Unsampled : OwnersOf(child.PID) = {}
        /\ \A id \in SuppliedIds : \A child \in Assigned(id) :
              /\ id \in DOMAIN attr.result.stats
              /\ \E i \in 1..Len(attr.result.stats[id].processes) :
                    LET entry == attr.result.stats[id].processes[i]
                    IN /\ entry.pid = child.PID
                       /\ entry.cpu = CpuReading(child)
                       /\ entry.memory = MegabytesReading(child)

\* pid 3 runs a process of B and has no reading; pid 2 is attributed to A
UnsampledPidExcludedWitness ==
    /\ AttributedWithUnsampled
    /\ P_B_RUN \in Unsampled
    /\ attr.options.pidToExtensionId = EmptyMap
    /\ ID_A \in DOMAIN attr.result.stats
    /\ OwnersOf(2) = {ID_A}
    /\ ID_B \notin DOMAIN attr.result.stats

\* the results estimateCpuUsage and estimateMemoryUsage can give a round for
\* extension id
EstimatesFor(id) == {input.estimates[id] : input \in RoundInputs}

\* the number of processes the latest attribution gave extension id
ProcessCountOf(id) ==
    IF id \in DOMAIN subprocessStats THEN subprocessStats[id].processCount ELSE 0

\* C25: every current metric of an extension the latest attribution gave at
\* least one process carries that extension's totalCpu and totalMemory, and
\* no estimate; every current metric of an extension with processCount 0 or
\* without an entry in the attribution carries the estimates of the round.
EstimateOnlyWithoutProcesses ==
    \A i \in 1..Len(currentMetrics) :
        LET metric == currentMetrics[i]
            usage  == [cpu |-> metric.cpuUsage, memory |-> metric.memoryUsage]
        IN /\ metric.subprocessCount = ProcessCountOf(metric.id)
           /\ ProcessCountOf(metric.id) > 0
                 => /\ metric.cpuUsage = subprocessStats[metric.id].totalCpu
                    /\ metric.memoryUsage = subprocessStats[metric.id].totalMemory
                    /\ usage \notin EstimatesFor(metric.id)
           /\ ProcessCountOf(metric.id) = 0 => usage \in EstimatesFor(metric.id)

\* one round recorded A from the totals of its process and B, which has no
\* process, from the estimates
EstimateOnlyWitness ==
    /\ Len(currentMetrics) = 2
    /\ \E i, j \in 1..Len(currentMetrics) :
          /\ currentMetrics[i].id = ID_A /\ currentMetrics[j].id = ID_B
          /\ ProcessCountOf(ID_A) = 1
          /\ currentMetrics[i].cpuUsage = 81 /\ currentMetrics[i].memoryUsage = 120
          /\ ID_B \notin DOMAIN subprocessStats
          /\ currentMetrics[j].cpuUsage = 2 /\ currentMetrics[j].memoryUsage = 9

\* the step is the part of round r from the return of the attribution to the
\* await of the save
Records(r) ==
    /\ rounds[r].pc = "attr"
    /\ \E q \in DOMAIN rounds' : rounds'[q].id = rounds[r].id /\ rounds'[q].pc = "save"

\* the points of extension id in records, none when it has no record
PointsOf(records, id) ==
    IF id \in DOMAIN records THEN records[id].metrics ELSE << >>

\* the points of extension id in the log of recorded points
LoggedOf(log, id) == IF id \in DOMAIN log THEN log[id] ELSE << >>

\* the ids of the extensions supplied to a round
RoundIds == {Extensions[i].id : i \in 1..Len(Extensions)}

\* C26: when a round records, the record of every supplied extension whose id
\* does not start with 'vscode.' gains exactly one point, which carries the
\* timestamp the round took at its start; an extension whose id starts with
\* 'vscode.' never has a record or a point; a record comes into being only in
\* the step that records its first point.
OnePointPerMonitoredExtension ==
    /\ [][\A r \in DOMAIN rounds : Records(r) =>
            /\ \A id \in RoundIds :
                  IF startsWith(id, BUILTIN_PREFIX)
                  THEN id \notin DOMAIN performanceHistory' /\ id \notin DOMAIN inserted'
                  ELSE /\ id \in DOMAIN performanceHistory'
                       /\ \E point \in {currentMetrics'[i] : i \in 1..Len(currentMetrics')} :
                             /\ point.id = id
                             /\ point.timestamp = rounds[r].timestamp
                             /\ PointsOf(performanceHistory', id)
                                   = Append(PointsOf(performanceHistory, id), point)
                             /\ LoggedOf(inserted', id)
                                   = Append(LoggedOf(inserted, id), point)
            /\ DOMAIN performanceHistory' \subseteq RoundIds]_vars
    /\ [][(\A r \in DOMAIN rounds : ~Records(r))
             => DOMAIN performanceHistory' \subseteq DOMAIN performanceHistory]_vars

\* a round has recorded the first point of A and of B, with one timestamp,
\* into records that did not exist before; the built-in extension was supplied
\* and has no record
OnePointWitness ==
    /\ ID_BUILTIN \in RoundIds
    /\ DOMAIN performanceHistory = {ID_A, ID_B}
    /\ Len(performanceHistory[ID_A].metrics) = 1
    /\ Len(performanceHistory[ID_B].metrics) = 1
    /\ performanceHistory[ID_A].metrics[1].timestamp
          = performanceHistory[ID_B].metrics[1].timestamp
    /\ \E r \in DOMAIN rounds :
          /\ rounds[r].pc = "save"
          /\ rounds[r].timestamp = performanceHistory[ID_A].metrics[1].timestamp

\* the elements of a sequence
Elements(seq) == {seq[i] : i \in 1..Len(seq)}

\* top holds the min(5, n) metrics of metrics with the largest values of
\* field, the largest first
IsTopFive(top, metrics, field) ==
    /\ Len(top) = Min(5, Len(metrics))
    /\ Elements(top) \subseteq Elements(metrics)
    /\ Cardinality(Elements(top)) = Len(top)
    /\ \A i, j \in 1..Len(top) : i < j => top[i][field] >= top[j][field]
    /\ \A m \in Elements(metrics) \ Elements(top) :
          \A i \in 1..Len(top) : m[field] <= top[i][field]

\* C27: the summary of the current metrics counts them, counts the active
\* ones, sums their cpu and their memory values, and lists the min(5, n)
\* metrics with the largest cpu and the min(5, n) with the largest memory
\* values, the largest first; the current metrics are the same sequence after
\* the call as before.
SummaryOfCurrentMetrics ==
    (attr.ran /\ attr.op = "summary") =>
        LET metrics == attr.metrics
            summary == attr.result.summary
        IN /\ summary.totalExtensions = Len(metrics)
           /\ summary.activeExtensions
                 = Cardinality({i \in 1..Len(metrics) : metrics[i].isActive})
           /\ summary.totalCpuUsage
                 = SumOver([i \in 1..Len(metrics) |-> metrics[i].cpuUsage],
                           1..Len(metrics))
           /\ summary.totalMemoryUsage
                 = SumOver([i \in 1..Len(metrics) |-> metrics[i].memoryUsage],
                           1..Len(metrics))
           /\ IsTopFive(summary.topCpuConsumers, metrics, cpuOf)
           /\ IsTopFive(summary.topMemoryConsumers, metrics, memoryOf)
           /\ attr.result.currentMetrics = metrics

\* a summary of seven metrics that are in neither order: the five with the
\* most cpu are not the five with the most memory, and two were left out
SummaryWitness ==
    /\ attr.ran /\ attr.op = "summary"
    /\ Len(attr.metrics) = 7
    /\ Len(attr.result.summary.topCpuConsumers) = 5
    /\ attr.result.summary.topCpuConsumers # SubSeq(attr.metrics, 1, 5)
    /\ attr.result.summary.topMemoryConsumers # SubSeq(attr.metrics, 1, 5)
    /\ Elements(attr.result.summary.topCpuConsumers)
          # Elements(attr.result.summary.topMemoryConsumers)
    /\ attr.result.summary.activeExtensions \in 1..6
    /\ attr.result.currentMetrics = attr.metrics

\* the latest operation was a call of findBestMatch with the command and the
\* extensions of the first call
SameAsFirstCall ==
    /\ matched.first # None
    /\ attr.ran /\ attr.op = "match"
    /\ attr.command = matched.first[1].command
    /\ attr.extensions = matched.first[1].extensions

PointsChronological ==
    \A id \in DOMAIN performanceHistory :
        LET metrics == performanceHistory[id].metrics
        IN \A i, j \in 1..Len(metrics) :
              i < j => metrics[i].timestamp <= metrics[j].timestamp

\* the steps round id has taken so far, in order
StepsOf(id) == SelectSeq(steps, LAMBDA s : s.round = id)

\* the positions in log of the steps of a kind
PositionsOf(log, kind) == {p \in 1..Len(log) : log[p].kind = kind}

\* the ids of the rounds that have taken a step
RoundsStepped == {steps[p].round : p \in 1..Len(steps)}

\* C30: the steps of every round are in this order: the attribution returns
\* first and once; the point of each extension is inserted immediately before
\* the alerts of that extension are evaluated, each once; onMetricsUpdated is
\* fired at most once and the save issued at most once, the event after every
\* insert and alert of the round and before the save; a round that has
\* returned has inserted and evaluated every extension that is not built in,
\* fired once and saved once.  The point whose alerts are about to be
\* evaluated is the last point of its record.
RoundStepsSequential ==
    /\ \A r \in DOMAIN rounds :
          rounds[r].pc = "alert" =>
             LET metric == rounds[r].metrics[Len(rounds[r].metrics)]
             IN /\ metric.id \in DOMAIN performanceHistory
                /\ performanceHistory[metric.id].metrics[
                        Len(performanceHistory[metric.id].metrics)] = metric
    /\ \A id \in RoundsStepped :
        LET log == StepsOf(id)
        IN /\ PositionsOf(log, "attribution") = {1}
           /\ \A p \in PositionsOf(log, "alert") :
                 /\ p - 1 \in PositionsOf(log, "insert")
                 /\ log[p - 1].extensionId = log[p].extensionId
           /\ \A p, q \in PositionsOf(log, "insert") :
                 log[p].extensionId = log[q].extensionId => p = q
           /\ \A p, q \in PositionsOf(log, "alert") :
                 log[p].extensionId = log[q].extensionId => p = q
           /\ Cardinality(PositionsOf(log, "event")) <= 1
           /\ Cardinality(PositionsOf(log, "save")) <= 1
           /\ \A e \in PositionsOf(log, "event") :
                 /\ {log[p].extensionId : p \in PositionsOf(log, "insert")} = MonitoredIds
                 /\ {log[p].extensionId : p \in PositionsOf(log, "alert")} = MonitoredIds
                 /\ \A p \in PositionsOf(log, "insert") \cup PositionsOf(log, "alert") :
                       p < e
           /\ \A s \in PositionsOf(log, "save") :
                 \E e \in PositionsOf(log, "event") : e < s
           /\ \A r \in PositionsOf(log, "return") :
                 /\ r = Len(log)
                 /\ \E s \in PositionsOf(log, "save") : s < r

\* two rounds overlapped and both have returned: the second began before the
\* first resumed, and each has inserted, evaluated, fired and saved
RoundStepsWitness ==
    /\ RoundsStepped = {1, 2}
    /\ rounds = << >>
    /\ fired = 2
    /\ \A id \in RoundsStepped :
          /\ Len(StepsOf(id)) = 4 + 2 * Cardinality(MonitoredIds)
          /\ StepsOf(id)[Len(StepsOf(id))].kind = "return"
    /\ \E p \in 1..Len(steps) :
          /\ steps[p].round = 2 /\ steps[p].kind = "attribution"
          /\ \A q \in 1..(p - 1) : steps[q].kind # "return"

\* the step inserts one point into the record of id
InsertsInto(id) ==
    /\ id \in DOMAIN inserted /\ id \in DOMAIN inserted'
    /\ id \in DOMAIN performanceHistory /\ id \in DOMAIN performanceHistory'
    /\ Len(inserted'[id]) = Len(inserted[id]) + 1

\* the timestamp of the earliest point of seq whose field has the largest
\* value of seq
EarliestMaximum(seq, field) ==
    LET top == {i \in 1..Len(seq) : \A j \in 1..Len(seq) : seq[j][field] <= seq[i][field]}
    IN seq[CHOOSE i \in top : \A j \in top : i <= j].timestamp

\* an insert of a value equal to the peak leaves the peak, value and
\* timestamp, as it was
PeakKeptByEqualInsert ==
    \A id \in DOMAIN performanceHistory :
        InsertsInto(id) =>
            LET point == inserted'[id][Len(inserted'[id])]
                old   == performanceHistory[id].peaks
                new   == performanceHistory'[id].peaks
            IN /\ point.cpuUsage = old.cpu.value => new.cpu = old.cpu
               /\ point.memoryUsage = old.memory.value => new.memory = old.memory

\* the timestamp of each peak is that of the earliest point inserted since
\* the last clear that has the largest value
PeakTimestampIsEarliest ==
    \A id \in DOMAIN performanceHistory :
        (id \in DOMAIN inserted /\ inserted[id] # << >>) =>
            /\ performanceHistory[id].peaks.cpu.timestamp
                  = EarliestMaximum(inserted[id], cpuOf)
            /\ performanceHistory[id].peaks.memory.timestamp
                  = EarliestMaximum(inserted[id], memoryOf)

\* C31: an insert of a point whose cpu (memory) equals the peak value leaves
\* the peak value and the peak timestamp as they were, and the timestamp of
\* a peak is always that of the earliest inserted point with the largest
\* value.
PeakTiesKeepEarliest == [](PeakTimestampIsEarliest) /\ [][PeakKeptByEqualInsert]_vars

\* every element of sub is an element of seq, in the order of seq
RECURSIVE IsSubsequence(_, _)
IsSubsequence(sub, seq) ==
    IF sub = << >> THEN TRUE
    ELSE IF seq = << >> THEN FALSE
    ELSE IF Head(sub) = Head(seq) THEN IsSubsequence(Tail(sub), Tail(seq))
    ELSE IsSubsequence(sub, Tail(seq))

\* C32: a cleanup keeps every record of the history: it changes neither the
\* averages nor the peaks of any, and the points it leaves are points the
\* record held, in their order; it leaves the current metrics, the
\* subprocess stats, the persisted copy, the monitoring flag, the timers and
\* the rounds in flight as they were.
CleanupChangesOnlyPoints ==
    [][CleanupStep =>
        /\ DOMAIN performanceHistory' = DOMAIN performanceHistory
        /\ \A id \in DOMAIN performanceHistory :
              /\ performanceHistory'[id].extensionId = performanceHistory[id].extensionId
              /\ performanceHistory'[id].averages = performanceHistory[id].averages
              /\ performanceHistory'[id].peaks = performanceHistory[id].peaks
              /\ IsSubsequence(performanceHistory'[id].metrics,
                               performanceHistory[id].metrics)
        /\ UNCHANGED <<currentMetrics, subprocessStats, persisted, schedulerVars>>]_vars

\* a cleanup of a running monitor has evicted every point of the record of A,
\* which is still there with the average and the peak of the evicted point
CleanupChangesOnlyPointsWitness ==
    /\ env.cleanups = 1
    /\ isMonitoringActive /\ timers # {}
    /\ currentMetrics # << >>
    /\ ID_A \in DOMAIN performanceHistory
    /\ performanceHistory[ID_A].metrics = << >>
    /\ ID_A \in DOMAIN inserted /\ Len(inserted[ID_A]) = 1
    /\ performanceHistory[ID_A].peaks.cpu.value = inserted[ID_A][1].cpuUsage
    /\ performanceHistory[ID_A].averages.cpu.num = inserted[ID_A][1].cpuUsage
    /\ performanceHistory[ID_A].peaks.cpu.value > 0

\* C33: in the result of an attribution pass the processes of every
\* component are in descending order of cpu.
ProcessesSortedByCpu ==
    (attr.ran /\ attr.op = "attribute" /\ ~attr.result.threw) =>
        \A id \in DOMAIN attr.result.stats :
            LET processes == attr.result.stats[id].processes
            IN \A i, j \in 1..Len(processes) :
                  i < j => processes[i].cpu >= processes[j].cpu

\* a startMonitoring call is awaiting its first round
StartInProgress == \E r \in DOMAIN rounds : rounds[r].kind = "start"

\* C34: at most one interval timer of startMonitoring is armed at any time,
\* and whenever one is armed and no startMonitoring call is in progress,
\* isMonitoring() is true.
AtMostOneTimerArmed ==
    /\ Cardinality(timers) <= 1
    /\ (timers # {} /\ ~StartInProgress) => isMonitoringActive

\* the number of entries with this pid in the processes of all components of
\* the result
TimesCounted(pid) ==
    SumOver([id \in DOMAIN attr.result.stats |->
                Cardinality({i \in 1..Len(attr.result.stats[id].processes) :
                                attr.result.stats[id].processes[i].pid = pid})],
            DOMAIN attr.result.stats)

\* C35: in the result of an attribution pass every pid is listed at most
\* once over all components, and the processCounts of all components add up
\* to no more than the number of distinct walked pids that have a reading.
PidCountedAtMostOnce ==
    AttributionSucceeded =>
        /\ \A pid \in DOMAIN attr.sampling.stats : TimesCounted(pid) <= 1
        /\ SumOver([id \in DOMAIN attr.result.stats |->
                       attr.result.stats[id].processCount],
                   DOMAIN attr.result.stats)
              <= Cardinality({child.PID : child \in WalkedProcesses}
                             \cap DOMAIN attr.sampling.stats)

\* C36: whenever no round is in flight, every current metric has the
\* subprocessCount that the subprocess stats give its extension: the
\* processCount of its entry, and 0 when it has none.
StatsAndMetricsFromOneRound ==
    rounds = << >> =>
        \A i \in 1..Len(currentMetrics) :
            currentMetrics[i].subprocessCount = ProcessCountOf(currentMetrics[i].id)

\* two rounds overlapped and met different attributions: one found no
\* process, the other the process of A; both have returned and the stats are
\* those of the later one
StatsAndMetricsWitness ==
    /\ rounds = << >>
    /\ fired = 2
    /\ \E p, q \in 1..Len(steps) :
          /\ steps[p].kind = "attribution" /\ steps[q].kind = "attribution"
          /\ steps[p].round = 1 /\ steps[q].round = 2
          /\ \A k \in 1..Len(steps) : steps[k].kind = "return" => k > p /\ k > q
    /\ Len(currentMetrics) = 2
    /\ ProcessCountOf(ID_A) = 1
    /\ ID_A \in DOMAIN inserted
    /\ \E k \in 1..Len(inserted[ID_A]) : inserted[ID_A][k].subprocessCount = 0

\* the walked processes of an attribution pass whose pid the override map
\* gives an id that no supplied extension has
ForcedToUnknown ==
    {child \in WalkedProcesses :
        /\ child.PID \in DOMAIN attr.options.pidToExtensionId
        /\ attr.options.pidToExtensionId[child.PID] # << >>
        /\ attr.options.pidToExtensionId[child.PID] \notin SuppliedIds}

\* C37: a process whose pid the override map gives an id that is not among
\* the supplied extensions is listed by no component of the result, also
\* when its command matches one, and the result has no entry for that id.
UnknownOverrideDropsProcess ==
    AttributionSucceeded =>
        \A child \in ForcedToUnknown :
            /\ OwnersOf(child.PID) = {}
            /\ attr.options.pidToExtensionId[child.PID] \notin DOMAIN attr.result.stats
            /\ DOMAIN attr.result.stats \subseteq SuppliedIds

\* pid 2 runs the server of A, has a reading and is forced to an unknown id;
\* pid 3 goes to B, and A, whose path the command of pid 2 holds, has no entry
UnknownOverrideWitness ==
    /\ AttributionSucceeded
    /\ P_A_SERVER \in ForcedToUnknown
    /\ 2 \in DOMAIN attr.sampling.stats
    /\ findBestMatch(resolveCommand(P_A_SERVER),
                     indexedExtensions(attr.extensions)) # None
    /\ OwnersOf(3) = {ID_B}
    /\ ID_A \notin DOMAIN attr.result.stats

\* the positions of the matching candidates no matching candidate has a
\* longer normalized install path than
TiedLongest(command, extensions) ==
    {i \in Hits(command, extensions) :
        \A j \in Hits(command, extensions) :
            Len(normalizePath(extensions[j].extensionPath))
                <= Len(normalizePath(extensions[i].extensionPath))}

\* the id of the first of the candidates tied for the longest path, if any
FirstOfLongest(command, extensions) ==
    IF command = << >> \/ Hits(command, extensions) = {} THEN None
    ELSE LET tied == TiedLongest(command, extensions)
         IN Some(extensions[CHOOSE i \in tied : \A j \in tied : i <= j].id)

\* the walked processes with a reading whose match the override map does not
\* decide
HeuristicallyMatched ==
    {child \in WalkedProcesses :
        /\ isFinite(child.PID)
        /\ child.PID \in DOMAIN attr.sampling.stats
        /\ child.PID \notin DOMAIN attr.options.pidToExtensionId}

\* C38: among the matching candidates that share the longest install path
\* findBestMatch returns the one that is first in the index, and in an
\* attribution pass a process left to the heuristic goes to that candidate,
\* and to no component when its resolved command is empty.
FirstOfTiedLongestWins ==
    /\ (attr.ran /\ attr.op = "match") =>
          ResultId(attr.result) = FirstOfLongest(attr.command, attr.extensions)
    /\ AttributionSucceeded =>
          \A child \in HeuristicallyMatched :
             LET first == FirstOfLongest(resolveCommand(child), attr.extensions)
             IN /\ OwnersOf(child.PID) = {first[i] : i \in 1..Len(first)}
                /\ resolveCommand(child) = << >> => OwnersOf(child.PID) = {}

\* the command of pid 3 holds the equally long paths of B and of A, in this
\* order, and pid 3 goes to A, the first supplied; pid 2 has a reading and no
\* command and goes to nobody
FirstOfTiedLongestWitness ==
    /\ AttributionSucceeded
    /\ P_BOTH \in HeuristicallyMatched
    /\ P_NAMELESS \in HeuristicallyMatched
    /\ Cardinality(TiedLongest(CMD_BOTH, attr.extensions)) = 2
    /\ attr.extensions[1].id = ID_A
    /\ OwnersOf(3) = {ID_A}
    /\ OwnersOf(2) = {}

\* the extensions for which a step of this kind is in log
IdsStepped(log, kind) == {log[p].extensionId : p \in PositionsOf(log, kind)}

\* the extensions for which log holds a step that ended in the catch block
IdsCaught(log) ==
    IdsStepped(log, "caughtBuild") \cup IdsStepped(log, "caughtRecord")
        \cup IdsStepped(log, "caughtAlert")

\* C39: in every round in which a statement of the try block threw for one
\* extension, every other extension that is not built in has its point
\* inserted and its alerts evaluated before the event is fired, the metrics
\* published hold the metric of each of them, and a round that has returned
\* has fired the event once and issued the save once.
ThrowIsolatedToComponent ==
    /\ \A id \in RoundsStepped :
          LET log == StepsOf(id)
          IN /\ \A e \in PositionsOf(log, "event") :
                   /\ IdsStepped(log, "insert") \cup IdsCaught(log) = MonitoredIds
                   /\ MonitoredIds \ IdsCaught(log)
                         \subseteq {log[p].extensionId :
                                      p \in {q \in PositionsOf(log, "alert") : q < e}}
                   /\ \A p \in PositionsOf(log, "insert") : p < e
             /\ \A r \in PositionsOf(log, "return") :
                   /\ Cardinality(PositionsOf(log, "event")) = 1
                   /\ Cardinality(PositionsOf(log, "save")) = 1
    /\ \A r \in DOMAIN rounds :
          rounds[r].pc = "store" =>
             LET log == StepsOf(rounds[r].id)
             IN /\ currentMetrics = rounds[r].metrics
                /\ \A id \in MonitoredIds \ IdsCaught(log) :
                      /\ \E i \in 1..Len(currentMetrics) :
                            /\ currentMetrics[i].id = id
                            /\ currentMetrics[i].timestamp = rounds[r].timestamp
                      /\ id \in DOMAIN performanceHistory
                      /\ \E k \in 1..Len(performanceHistory[id].metrics) :
                            performanceHistory[id].metrics[k].timestamp
                               = rounds[r].timestamp

\* the round met a busy process of A and building the metric of A threw: B,
\* which comes after A, has its point and its alert evaluation, the metrics
\* published are the metric of B alone, A has no record, and the round has
\* saved and returned
ThrowIsolatedWitness ==
    /\ rounds = << >>
    /\ RoundsStepped = {1}
    /\ IdsStepped(steps, "caughtBuild") = {ID_A}
    /\ IdsStepped(steps, "insert") = {ID_B}
    /\ IdsStepped(steps, "alert") = {ID_B}
    /\ steps[Len(steps)].kind = "return"
    /\ fired = 1
    /\ Len(currentMetrics) = 1 /\ currentMetrics[1].id = ID_B
    /\ ID_A \in DOMAIN subprocessStats
    /\ DOMAIN performanceHistory = {ID_B}
    /\ persisted = Some(performanceHistory)

\* the step is the insert of a point of extension id by a round
InsertStepOf(id) ==
    /\ Len(steps') = Len(steps) + 1
    /\ steps'[Len(steps')].kind = "insert"
    /\ steps'[Len(steps')].extensionId = id

\* C40: the insert of a point of one extension leaves the record of every
\* other extension as it was, points, averages and peaks, and neither adds
\* nor removes a record of another extension.
InsertChangesOnlyOwnRecord ==
    [][\A id \in MonitoredIds :
          InsertStepOf(id) =>
             /\ DOMAIN performanceHistory' \ {id} = DOMAIN performanceHistory \ {id}
             /\ \A other \in DOMAIN performanceHistory \ {id} :
                   /\ performanceHistory'[other].metrics = performanceHistory[other].metrics
                   /\ performanceHistory'[other].averages = performanceHistory[other].averages
                   /\ performanceHistory'[other].peaks = performanceHistory[other].peaks
                   /\ performanceHistory'[other].extensionId = other
             /\ Len(performanceHistory'[id].metrics) > 0]_vars

\* the second point of A has just been inserted, with other averages than
\* the record of B, which holds a point of an earlier round
InsertChangesOnlyOwnWitness ==
    /\ Len(steps) > 0
    /\ steps[Len(steps)].kind = "insert"
    /\ steps[Len(steps)].extensionId = ID_A
    /\ ID_B \in DOMAIN performanceHistory
    /\ Len(performanceHistory[ID_B].metrics) = 1
    /\ Len(performanceHistory[ID_A].metrics) = 2
    /\ performanceHistory[ID_A].averages # performanceHistory[ID_B].averages

====
